---- MODULE Spec2Model ----
(***************************************************************************)
(* Cross-source identity resolution and aggregation of the APHRC content   *)
(* aggregator (centralized-repository).                                    *)
(*                                                                         *)
(*   - ContentExporter (src/utils/exporters.py) is the identity index:     *)
(*     seen_dois / seen_titles, initialize_from_openalex, is_duplicate,    *)
(*     add_content, export_to_csv, merge_all_sources.                      *)
(*   - main / process_additional_sources (main.py) is the aggregation      *)
(*     engine: baseline (OpenAlex) first, then ORCID, Knowhub, Website.    *)
(*                                                                         *)
(* The specifications share one list of variables:                         *)
(*   SpecExporter     : any sequence of calls on one ContentExporter        *)
(*   Spec             : one run of main()                                   *)
(*   SpecSecondSource : process_additional_sources on any handed table      *)
(*   SpecScrapers     : any sequence of fetch calls on the two scrapers     *)
(*   SpecRetry        : get_expert_data and _process_works, by request      *)
(*   SpecRoster       : process_csv on any roster                           *)
(*   SpecMerge        : the merge step of og_main, merge_all_sources        *)
(*   SpecPaging       : _fetch_content_type page by page (SpecPagingLive    *)
(*                      adds that a running call goes on running)           *)
(*   SpecOrcid        : fetch_researcher_publications on any works list     *)
(*                                                                         *)
(* Strings are sequences of tokens, so that str.lower() is a real          *)
(* conversion: the DOI body "10.1/X" lowers to "10.1/x", the title "A" to  *)
(* "a", and the resolver prefix "https://doi.org/" is a token of its own   *)
(* that lower() keeps.  Python's None and pandas' NaN are NoneVal.         *)
(***************************************************************************)
EXTENDS Integers, Sequences, FiniteSets, TLC

VARIABLES
    seen_dois,      \* ContentExporter.seen_dois
    seen_titles,    \* ContentExporter.seen_titles
    lastCall,       \* SpecExporter: the last call on the exporter, its arguments and result
    registered,     \* SpecExporter: history variable, empty or one arbitrary (doi, title) pair registered so far
    pc,             \* Spec: position of main() / process_additional_sources()
    openalex_df,    \* Spec: rows of openalex_data['publications']
    orcid_column,   \* Spec: whether the table handed over has an 'ORCID' column
    credentials,    \* Spec: ORCID_CLIENT_ID and ORCID_CLIENT_SECRET are both set
    orcids,         \* Spec: number of ORCID ids still to be processed by the loop
    fetched,        \* Spec: the batch the current adapter returned (pubs, knowhub_content, website_content)
    unique,         \* Spec: the filtered batch (unique_pubs, unique_knowhub, unique_website)
    orcid_results,  \* Spec: orcid_results
    all_content,    \* Spec: all_content
    errors,         \* Spec: sources for which an error has been logged
    upstream,       \* SpecScrapers: what the Knowhub browse listing and the website sections serve
    seen_handles,   \* SpecScrapers: KnowhubScraper.seen_handles
    fetch,          \* SpecScrapers: the last fetch call, its arguments, result and request log
    attempt,        \* SpecRetry: the loop variable of get_expert_data
    requests,       \* SpecRetry: the requests issued so far by the running call
    response,       \* SpecRetry: the upstream's answer to the last request
    outcome,        \* SpecRetry: what the last call returned, or that it raised
    works,          \* SpecRetry: the works of data["group"] _process_works has still to process
    publications,   \* SpecRetry: the publications _process_works has appended
    roster,         \* SpecRoster: the experts table process_csv reads, and what OpenAlex answers per row
    additional_sources, \* SpecMerge: the dictionary og_main's process_additional_sources returned
    source_dataframes   \* SpecMerge: the tables handed to merge_all_sources

indexVars == <<seen_dois, seen_titles>>
apiVars == <<lastCall, registered>>
runVars == <<pc, openalex_df, orcid_column, credentials, orcids, fetched, unique,
             orcid_results, all_content, errors>>
scraperVars == <<upstream, seen_handles, fetch>>
retryVars == <<attempt, requests, response, outcome, works, publications>>
batchVars == <<roster, additional_sources, source_dataframes>>
adapterVars == <<upstream, seen_handles, fetch, attempt, requests, response, outcome, works,
                 publications, roster, additional_sources, source_dataframes>>
vars == <<seen_dois, seen_titles, lastCall, registered, pc, openalex_df, orcid_column,
          credentials, orcids, fetched, unique, orcid_results, all_content, errors,
          upstream, seen_handles, fetch, attempt, requests, response, outcome, works,
          publications, roster, additional_sources, source_dataframes>>

----------------------------------------------------------------------------
(* Bounds *)

MaxRows == 1
MaxTables == 2
MaxBaseline == 1
MaxBatch == 2
MaxHanded == 2

----------------------------------------------------------------------------
(* Strings *)

NoneVal == <<"None">>
EmptyStr == <<>>

DoiStrs == {EmptyStr, <<"10.1/x">>, <<"10.1/X">>, <<"https://doi.org/", "10.1/x">>}
TitleStrs == {EmptyStr, <<"a">>, <<"A">>, <<"b">>}

\* one character class of str.lower()
LowerTok(c) ==
    CASE c = "A" -> "a"
      [] c = "B" -> "b"
      [] c = "10.1/X" -> "10.1/x"
      [] OTHER -> c

\* str.lower()
Lower(s) == [i \in DOMAIN s |-> LowerTok(s[i])]

\* Python truthiness of an Optional[str]: None and '' are false
Truthy(v) == v # NoneVal /\ v # EmptyStr

\* Series.str.lower(): NaN stays NaN
StrLower(v) == IF v = NoneVal THEN NoneVal ELSE Lower(v)

\* all sequences over S of length at most n
BoundedSeq(S, n) == UNION {[1..k -> S] : k \in 0..n}

----------------------------------------------------------------------------
(* ContentExporter *)

\* a table is a sequence of rows; a table built from no rows has no columns
HasColumns(df) == Len(df) > 0

\* mutant: the DOI column is taken without str.lower()
DroppedNaLowerDois_raw(df) == {df[i].DOI : i \in {j \in DOMAIN df : df[j].DOI # NoneVal}}

\* set(openalex_df['DOI'].dropna().str.lower())
DroppedNaLowerDois(df) == {Lower(df[i].DOI) : i \in {j \in DOMAIN df : df[j].DOI # NoneVal}}

\* mutant: the Title column is taken without str.lower()
DroppedNaLowerTitles_raw(df) == {df[i].Title : i \in {j \in DOMAIN df : df[j].Title # NoneVal}}

\* set(openalex_df['Title'].dropna().str.lower())
DroppedNaLowerTitles(df) == {Lower(df[i].Title) : i \in {j \in DOMAIN df : df[j].Title # NoneVal}}

\* mutant: the seed assigns the set instead of updating it
initialize_from_openalex_dois_assign(sd, df) == DroppedNaLowerDois(df)

initialize_from_openalex_dois(sd, df) == sd \cup DroppedNaLowerDois(df)

\* mutant: the seed loads the DOIs only
initialize_from_openalex_titles_skipped(st, df) == st

initialize_from_openalex_titles(st, df) == st \cup DroppedNaLowerTitles(df)

\* mutant: the DOI is looked up without lower()
is_duplicate_raw_doi(sd, st, doi, title) ==
    IF Truthy(doi) /\ doi \in sd THEN TRUE
    ELSE IF Truthy(title) /\ Lower(title) \in st THEN TRUE
    ELSE FALSE

\* mutant: the title is consulted only when the record has no DOI
is_duplicate_doi_first(sd, st, doi, title) ==
    IF Truthy(doi) THEN Lower(doi) \in sd
    ELSE IF Truthy(title) /\ Lower(title) \in st THEN TRUE
    ELSE FALSE

is_duplicate(sd, st, doi, title) ==
    IF Truthy(doi) /\ Lower(doi) \in sd THEN TRUE
    ELSE IF Truthy(title) /\ Lower(title) \in st THEN TRUE
    ELSE FALSE

\* mutant: the DOI is stored without lower()
add_content_dois_raw(sd, doi) == IF Truthy(doi) THEN sd \cup {doi} ELSE sd

add_content_dois(sd, doi) == IF Truthy(doi) THEN sd \cup {Lower(doi)} ELSE sd

\* mutant: the title is stored without lower()
add_content_titles_raw(st, title) == IF Truthy(title) THEN st \cup {title} ELSE st

add_content_titles(st, title) == IF Truthy(title) THEN st \cup {Lower(title)} ELSE st

\* the row export_to_csv writes for one dictionary: content.get('Title', ''), content.get('DOI', '')
ExportRow(content) ==
    [title |-> IF content.Title = NoneVal THEN EmptyStr ELSE content.Title,
     doi |-> IF content.DOI = NoneVal THEN EmptyStr ELSE content.DOI]

\* the loop of export_to_csv over a list of dictionaries (a missing key reads as None)
RECURSIVE export_to_csv_loop(_, _, _, _)
export_to_csv_loop(content_list, sd, st, unique_content) ==
    IF content_list = <<>>
    THEN [dois |-> sd, titles |-> st, unique_content |-> unique_content]
    ELSE LET content == Head(content_list) IN
         IF ~is_duplicate(sd, st, content.DOI, content.Title)
         THEN export_to_csv_loop(Tail(content_list),
                                 add_content_dois(sd, content.DOI),
                                 add_content_titles(st, content.Title),
                                 Append(unique_content, ExportRow(content)))
         ELSE export_to_csv_loop(Tail(content_list), sd, st, unique_content)

export_to_csv(content_list, sd, st) == export_to_csv_loop(content_list, sd, st, <<>>)

source_names == <<"openalex", "orcid", "knowhub", "website">>

\* the source tag merge_all_sources gives the i-th table (0-based in the code)
SourceTag(i) == IF i <= Len(source_names) THEN source_names[i] ELSE "source_n"

\* df_copy['source'] = ... for one table
WithSource(df, i) == [k \in DOMAIN df |-> [DOI |-> df[k].DOI, Title |-> df[k].Title, source |-> SourceTag(i)]]

\* pd.concat(source_dfs_with_source, ignore_index=True)
RECURSIVE ConcatTables(_, _)
ConcatTables(dfs, i) ==
    IF i > Len(dfs) THEN <<>> ELSE WithSource(dfs[i], i) \o ConcatTables(dfs, i + 1)

\* mutant: rows are compared by their lowercase DOI alone
MergeKey_doi_only(row) == <<StrLower(row.DOI)>>

\* the subset ['DOI_lower', 'Title_lower'] of one row
MergeKey(row) == <<StrLower(row.DOI), StrLower(row.Title)>>

\* drop_duplicates(subset=['DOI_lower', 'Title_lower'], keep='first')
RECURSIVE DropDuplicatesKeepFirst(_, _)
DropDuplicatesKeepFirst(rows, keys) ==
    IF rows = <<>> THEN <<>>
    ELSE IF MergeKey(Head(rows)) \in keys
         THEN DropDuplicatesKeepFirst(Tail(rows), keys)
         ELSE <<Head(rows)>> \o DropDuplicatesKeepFirst(Tail(rows), keys \cup {MergeKey(Head(rows))})

merge_all_sources(dfs) == DropDuplicatesKeepFirst(ConcatTables(dfs, 1), {})

----------------------------------------------------------------------------
(* SpecExporter: any sequence of calls on one ContentExporter *)

OptDois == DoiStrs \cup {NoneVal}
OptTitles == TitleStrs \cup {NoneVal}

\* rows of the tables and dictionaries handed to the exporter
TableRows == {[DOI |-> <<"https://doi.org/", "10.1/x">>, Title |-> <<"A">>],
              [DOI |-> <<"10.1/X">>, Title |-> <<"b">>],
              [DOI |-> NoneVal, Title |-> <<"a">>],
              [DOI |-> <<"10.1/x">>, Title |-> NoneVal],
              [DOI |-> EmptyStr, Title |-> EmptyStr]}

\* the tables handed to merge_all_sources
MergeTables == {<<[DOI |-> <<"10.1/x">>, Title |-> <<"a">>]>>,
                <<[DOI |-> <<"10.1/X">>, Title |-> <<"A">>], [DOI |-> <<"10.1/x">>, Title |-> <<"b">>]>>,
                <<[DOI |-> <<"https://doi.org/", "10.1/x">>, Title |-> <<"a">>]>>}

NoCall == [op |-> "none", doi |-> NoneVal, title |-> NoneVal, result |-> NoneVal]

\* the history variable keeps its pair or takes any one of the pairs registered by this call
Remember(pairs) == {registered} \cup {{p} : p \in pairs}

\* no scraper has been called
NoFetch == [op |-> "none", limit |-> 0, content_types |-> NoneVal, result |-> <<>>,
            parts |-> <<>>, requests |-> <<>>, seen_before |-> {}]

\* no request has been answered: also the e.response of a connection error
NoResponse == [present |-> FALSE, status |-> 0, body |-> ""]

\* no call has returned
NoOutcome == [call |-> "none", value |-> NoneVal, raised |-> FALSE]

\* no roster has been read and nothing has been merged
NoRoster == [first_column |-> TRUE, last_column |-> TRUE, rows |-> <<>>]
NoSources == [orcid |-> <<>>, knowhub |-> <<>>, website |-> <<>>]

InitBatch ==
    /\ roster = NoRoster
    /\ additional_sources = NoSources
    /\ source_dataframes = <<>>

\* the adapters are idle
InitAdapters ==
    /\ upstream = [browse |-> <<>>, sections |-> <<>>]
    /\ seen_handles = {}
    /\ fetch = NoFetch
    /\ attempt = 0
    /\ requests = 0
    /\ response = NoResponse
    /\ outcome = NoOutcome
    /\ works = 0
    /\ publications = 0
    /\ InitBatch

\* __init__
InitExporter ==
    /\ seen_dois = {}
    /\ seen_titles = {}

InitApi ==
    /\ InitExporter
    /\ lastCall = NoCall
    /\ registered = {}
    /\ pc = "api"
    /\ openalex_df = <<>>
    /\ orcid_column = FALSE
    /\ credentials = FALSE
    /\ orcids = 0
    /\ fetched = <<>>
    /\ unique = <<>>
    /\ orcid_results = <<>>
    /\ all_content = <<>>
    /\ errors = {}
    /\ InitAdapters

\* exporter.initialize_from_openalex(df); a table without columns raises KeyError
CallInitializeFromOpenalex(df) ==
    /\ HasColumns(df)
    /\ seen_dois' = initialize_from_openalex_dois(seen_dois, df)
    /\ seen_titles' = initialize_from_openalex_titles(seen_titles, df)
    /\ registered' \in Remember({<<df[i].DOI, df[i].Title>> : i \in DOMAIN df})
    /\ lastCall' = [NoCall EXCEPT !.op = "initialize_from_openalex"]
    /\ UNCHANGED runVars
    /\ UNCHANGED adapterVars

\* mutant: the query caches the keys it was asked about
CallIsDuplicate_caching(doi, title) ==
    /\ lastCall' = [NoCall EXCEPT !.op = "is_duplicate", !.doi = doi, !.title = title,
                                  !.result = is_duplicate(seen_dois, seen_titles, doi, title)]
    /\ seen_dois' = add_content_dois(seen_dois, doi)
    /\ seen_titles' = add_content_titles(seen_titles, title)
    /\ UNCHANGED registered
    /\ UNCHANGED runVars
    /\ UNCHANGED adapterVars

\* exporter.is_duplicate(doi, title)
CallIsDuplicate(doi, title) ==
    /\ lastCall' = [NoCall EXCEPT !.op = "is_duplicate", !.doi = doi, !.title = title,
                                  !.result = is_duplicate(seen_dois, seen_titles, doi, title)]
    /\ UNCHANGED <<seen_dois, seen_titles, registered>>
    /\ UNCHANGED runVars
    /\ UNCHANGED adapterVars

\* exporter.add_content(doi, title)
CallAddContent(doi, title) ==
    /\ seen_dois' = add_content_dois(seen_dois, doi)
    /\ seen_titles' = add_content_titles(seen_titles, title)
    /\ registered' \in Remember({<<doi, title>>})
    /\ lastCall' = [NoCall EXCEPT !.op = "add_content", !.doi = doi, !.title = title]
    /\ UNCHANGED runVars
    /\ UNCHANGED adapterVars

\* exporter.export_to_csv(content_list, filename) on a list of dictionaries
CallExportToCsv(content_list) ==
    LET r == export_to_csv(content_list, seen_dois, seen_titles) IN
    /\ seen_dois' = r.dois
    /\ seen_titles' = r.titles
    /\ registered' \in Remember({<<r.unique_content[k].doi, r.unique_content[k].title>> :
                                   k \in DOMAIN r.unique_content})
    /\ lastCall' = [NoCall EXCEPT !.op = "export_to_csv",
                                  !.result = IF r.unique_content # <<>> THEN r.unique_content ELSE NoneVal]
    /\ UNCHANGED runVars
    /\ UNCHANGED adapterVars

\* exporter.merge_all_sources(*source_dataframes)
CallMergeAllSources(dfs) ==
    /\ lastCall' = [NoCall EXCEPT !.op = "merge_all_sources", !.result = merge_all_sources(dfs)]
    /\ UNCHANGED <<seen_dois, seen_titles, registered>>
    /\ UNCHANGED runVars
    /\ UNCHANGED adapterVars

NextApi ==
    \/ \E df \in BoundedSeq(TableRows, MaxRows) : CallInitializeFromOpenalex(df)
    \/ \E doi \in OptDois, title \in OptTitles : CallIsDuplicate(doi, title)
    \/ \E doi \in OptDois, title \in OptTitles : CallAddContent(doi, title)
    \/ \E content_list \in BoundedSeq(TableRows, MaxRows) : CallExportToCsv(content_list)
    \/ \E dfs \in BoundedSeq(MergeTables, MaxTables) \ {<<>>} : CallMergeAllSources(dfs)

SpecExporter == InitApi /\ [][NextApi]_vars

----------------------------------------------------------------------------
(* Spec: one run of main() *)

\* rows process_publication lets into the publications table: DOI and Title both non-empty
BaselineRows == [DOI : {<<"10.1/X">>, <<"https://doi.org/", "10.1/x">>}, Title : {<<"a">>, <<"b">>}]

\* (doi, title) of the UnifiedContent records an adapter can return: the adapters take the
\* doi from a bare "10.<registrant>/<suffix>" match or leave it empty; Knowhub and Website
\* take the title from the text of the listing's anchor, which may be empty
TitledRecords == [doi : {EmptyStr, <<"10.1/x">>}, title : {<<"A">>, <<"b">>}]
Records == TitledRecords \cup [doi : {EmptyStr, <<"10.1/x">>}, title : {EmptyStr}]

\* results of OrcidScraper.fetch_researcher_publications: every record has a title, and
\* no two records have the same non-empty doi string
OrcidBatches ==
    {b \in BoundedSeq(TitledRecords, MaxBatch) :
        \A i, j \in DOMAIN b : (i # j /\ b[i].doi # EmptyStr) => b[i].doi # b[j].doi}

\* results of KnowhubScraper.fetch_publications and WebsiteScraper.fetch_content
Batches == BoundedSeq(Records, MaxBatch)

\* mutant: the filter collects the records it keeps in reverse order
RECURSIVE FilterUnique_reversed(_, _, _)
FilterUnique_reversed(batch, sd, st) ==
    IF batch = <<>> THEN <<>>
    ELSE IF ~is_duplicate(sd, st, Head(batch).doi, Head(batch).title)
         THEN FilterUnique_reversed(Tail(batch), sd, st) \o <<Head(batch)>>
         ELSE FilterUnique_reversed(Tail(batch), sd, st)

\* [content for content in batch if not exporter.is_duplicate(content.doi, content.title)]
RECURSIVE FilterUnique(_, _, _)
FilterUnique(batch, sd, st) ==
    IF batch = <<>> THEN <<>>
    ELSE IF ~is_duplicate(sd, st, Head(batch).doi, Head(batch).title)
         THEN <<Head(batch)>> \o FilterUnique(Tail(batch), sd, st)
         ELSE FilterUnique(Tail(batch), sd, st)

\* for content in unique: exporter.add_content(content.doi, content.title)  (seen_dois)
RECURSIVE RegisterDois(_, _)
RegisterDois(list, sd) ==
    IF list = <<>> THEN sd ELSE RegisterDois(Tail(list), add_content_dois(sd, Head(list).doi))

\* mutant: the accepted records' titles are not registered
RegisterTitles_skipped(list, st) == st

\* for content in unique: exporter.add_content(content.doi, content.title)  (seen_titles)
RECURSIVE RegisterTitles(_, _)
RegisterTitles(list, st) ==
    IF list = <<>> THEN st ELSE RegisterTitles(Tail(list), add_content_titles(st, Head(list).title))

\* for content in unique: content.source = tag
Tagged(list, tag) == [i \in DOMAIN list |-> [doi |-> list[i].doi, title |-> list[i].title, source |-> tag]]

Init ==
    /\ InitExporter
    /\ lastCall = NoCall
    /\ registered = {}
    /\ pc = "process_experts"
    /\ openalex_df = <<>>
    /\ orcid_column = FALSE
    /\ credentials \in BOOLEAN
    /\ orcids = 0
    /\ fetched = <<>>
    /\ unique = <<>>
    /\ orcid_results = <<>>
    /\ all_content = <<>>
    /\ errors = {}
    /\ InitAdapters

\* main: openalex_data = await process_experts(input_csv, logger).  The table may carry an
\* 'ORCID' column with at most one distinct id per row (process_additional_sources reads
\* it from whatever table it is handed; the publications table main.py builds has none).
ProcessExperts ==
    /\ pc = "process_experts"
    /\ \E df \in BoundedSeq(BaselineRows, MaxBaseline), col \in BOOLEAN, n \in 0..MaxBaseline :
          /\ col => HasColumns(df)
          /\ n <= Len(df)
          /\ openalex_df' = df
          /\ orcid_column' = col
          /\ orcids' = IF col THEN n ELSE 0
    /\ pc' = "initialize"
    /\ UNCHANGED <<seen_dois, seen_titles, lastCall, registered, credentials, fetched, unique,
                   orcid_results, all_content, errors>>
    /\ UNCHANGED adapterVars

\* main: process_experts raises (it logs and re-raises), caught by main's except Exception
ProcessExpertsRaises ==
    /\ pc = "process_experts"
    /\ errors' = errors \cup {"openalex", "main"}
    /\ pc' = "failed"
    /\ UNCHANGED <<seen_dois, seen_titles, lastCall, registered, openalex_df, orcid_column,
                   credentials, orcids, fetched, unique, orcid_results, all_content>>
    /\ UNCHANGED adapterVars

\* process_additional_sources: exporter.initialize_from_openalex(openalex_df)
SeedIndex ==
    /\ pc = "initialize"
    /\ HasColumns(openalex_df)
    /\ seen_dois' = initialize_from_openalex_dois(seen_dois, openalex_df)
    /\ seen_titles' = initialize_from_openalex_titles(seen_titles, openalex_df)
    /\ pc' = "orcid"
    /\ UNCHANGED <<lastCall, registered, openalex_df, orcid_column, credentials, orcids,
                   fetched, unique, orcid_results, all_content, errors>>
    /\ UNCHANGED adapterVars

\* process_additional_sources: openalex_df['DOI'] raises KeyError on a table without
\* columns; the outer except logs and returns all_content
SeedIndexRaises ==
    /\ pc = "initialize"
    /\ ~HasColumns(openalex_df)
    /\ errors' = errors \cup {"additional_sources"}
    /\ pc' = "returned"
    /\ UNCHANGED <<seen_dois, seen_titles, lastCall, registered, openalex_df, orcid_column,
                   credentials, orcids, fetched, unique, orcid_results, all_content>>
    /\ UNCHANGED adapterVars

\* process_additional_sources: no ORCID credentials, the ORCID block is skipped
OrcidSkipped ==
    /\ pc = "orcid"
    /\ ~credentials
    /\ pc' = "knowhub"
    /\ UNCHANGED <<seen_dois, seen_titles, lastCall, registered, openalex_df, orcid_column,
                   credentials, orcids, fetched, unique, orcid_results, all_content, errors>>
    /\ UNCHANGED adapterVars

\* process_additional_sources: OrcidScraper(...) raises (no access token), or
\* openalex_df['ORCID'] raises KeyError; "Error initializing ORCID scraper" is logged
OrcidInitRaises ==
    /\ pc = "orcid"
    /\ credentials
    /\ errors' = errors \cup {"orcid"}
    /\ pc' = "knowhub"
    /\ UNCHANGED <<seen_dois, seen_titles, lastCall, registered, openalex_df, orcid_column,
                   credentials, orcids, fetched, unique, orcid_results, all_content>>
    /\ UNCHANGED adapterVars

\* process_additional_sources: the scraper is constructed and the ids are read
OrcidInit ==
    /\ pc = "orcid"
    /\ credentials
    /\ orcid_column
    /\ pc' = "orcid_loop"
    /\ UNCHANGED <<seen_dois, seen_titles, lastCall, registered, openalex_df, orcid_column,
                   credentials, orcids, fetched, unique, orcid_results, all_content, errors>>
    /\ UNCHANGED adapterVars

\* process_additional_sources: pubs = fetch_researcher_publications(orcid_id); unique_pubs = [...]
OrcidFetch ==
    /\ pc = "orcid_loop"
    /\ orcids > 0
    /\ \E pubs \in OrcidBatches :
          /\ fetched' = pubs
          /\ unique' = FilterUnique(pubs, seen_dois, seen_titles)
    /\ pc' = "orcid_register"
    /\ UNCHANGED <<seen_dois, seen_titles, lastCall, registered, openalex_df, orcid_column,
                   credentials, orcids, orcid_results, all_content, errors>>
    /\ UNCHANGED adapterVars

\* process_additional_sources: tag and register unique_pubs, orcid_results.extend(unique_pubs)
OrcidRegister ==
    /\ pc = "orcid_register"
    /\ seen_dois' = RegisterDois(unique, seen_dois)
    /\ seen_titles' = RegisterTitles(unique, seen_titles)
    /\ orcid_results' = orcid_results \o Tagged(unique, "ORCID")
    /\ orcids' = orcids - 1
    /\ fetched' = <<>>
    /\ unique' = <<>>
    /\ pc' = "orcid_loop"
    /\ UNCHANGED <<lastCall, registered, openalex_df, orcid_column, credentials, all_content, errors>>
    /\ UNCHANGED adapterVars

\* process_additional_sources: after the loop, all_content.extend(orcid_results)
OrcidSave ==
    /\ pc = "orcid_loop"
    /\ orcids = 0
    /\ all_content' = all_content \o orcid_results
    /\ pc' = "knowhub"
    /\ UNCHANGED <<seen_dois, seen_titles, lastCall, registered, openalex_df, orcid_column,
                   credentials, orcids, fetched, unique, orcid_results, errors>>
    /\ UNCHANGED adapterVars

\* process_additional_sources: knowhub_content = fetch_publications(limit); unique_knowhub = [...]
KnowhubFetch ==
    /\ pc = "knowhub"
    /\ \E knowhub_content \in Batches :
          /\ fetched' = knowhub_content
          /\ unique' = FilterUnique(knowhub_content, seen_dois, seen_titles)
    /\ pc' = "knowhub_register"
    /\ UNCHANGED <<seen_dois, seen_titles, lastCall, registered, openalex_df, orcid_column,
                   credentials, orcids, orcid_results, all_content, errors>>
    /\ UNCHANGED adapterVars

\* every Knowhub request fails: fetch_publications logs the error and returns []
KnowhubFetchFails ==
    /\ pc = "knowhub"
    /\ fetched' = <<>>
    /\ unique' = <<>>
    /\ errors' = errors \cup {"knowhub"}
    /\ pc' = "knowhub_register"
    /\ UNCHANGED <<seen_dois, seen_titles, lastCall, registered, openalex_df, orcid_column,
                   credentials, orcids, orcid_results, all_content>>
    /\ UNCHANGED adapterVars

\* process_additional_sources: tag and register unique_knowhub, all_content.extend(unique_knowhub)
KnowhubRegister ==
    /\ pc = "knowhub_register"
    /\ seen_dois' = RegisterDois(unique, seen_dois)
    /\ seen_titles' = RegisterTitles(unique, seen_titles)
    /\ all_content' = all_content \o Tagged(unique, "Knowhub")
    /\ fetched' = <<>>
    /\ unique' = <<>>
    /\ pc' = "website"
    /\ UNCHANGED <<lastCall, registered, openalex_df, orcid_column, credentials, orcids,
                   orcid_results, errors>>
    /\ UNCHANGED adapterVars

\* process_additional_sources: website_content = fetch_content(limit=limit); unique_website = [...]
WebsiteFetch ==
    /\ pc = "website"
    /\ \E website_content \in Batches :
          /\ fetched' = website_content
          /\ unique' = FilterUnique(website_content, seen_dois, seen_titles)
    /\ pc' = "website_register"
    /\ UNCHANGED <<seen_dois, seen_titles, lastCall, registered, openalex_df, orcid_column,
                   credentials, orcids, orcid_results, all_content, errors>>
    /\ UNCHANGED adapterVars

\* every website request fails: _fetch_content_type logs the error and returns []
WebsiteFetchFails ==
    /\ pc = "website"
    /\ fetched' = <<>>
    /\ unique' = <<>>
    /\ errors' = errors \cup {"website"}
    /\ pc' = "website_register"
    /\ UNCHANGED <<seen_dois, seen_titles, lastCall, registered, openalex_df, orcid_column,
                   credentials, orcids, orcid_results, all_content>>
    /\ UNCHANGED adapterVars

\* process_additional_sources: tag and register unique_website, all_content.extend(unique_website),
\* return all_content
WebsiteRegister ==
    /\ pc = "website_register"
    /\ seen_dois' = RegisterDois(unique, seen_dois)
    /\ seen_titles' = RegisterTitles(unique, seen_titles)
    /\ all_content' = all_content \o Tagged(unique, "Website")
    /\ fetched' = <<>>
    /\ unique' = <<>>
    /\ pc' = "returned"
    /\ UNCHANGED <<lastCall, registered, openalex_df, orcid_column, credentials, orcids,
                   orcid_results, errors>>
    /\ UNCHANGED adapterVars

\* main: additional_content is empty, "No additional content found."
NoAdditionalContent ==
    /\ pc = "returned"
    /\ all_content = <<>>
    /\ pc' = "done"
    /\ UNCHANGED <<seen_dois, seen_titles, lastCall, registered, openalex_df, orcid_column,
                   credentials, orcids, fetched, unique, orcid_results, all_content, errors>>
    /\ UNCHANGED adapterVars

\* main: exporter.export_to_csv(additional_content, ...) on a list of UnifiedContent objects:
\* content.get raises AttributeError on the first element, caught by main's except Exception;
\* merge_all_sources is not reached
ExportRaises ==
    /\ pc = "returned"
    /\ all_content # <<>>
    /\ errors' = errors \cup {"main"}
    /\ pc' = "failed"
    /\ UNCHANGED <<seen_dois, seen_titles, lastCall, registered, openalex_df, orcid_column,
                   credentials, orcids, fetched, unique, orcid_results, all_content>>
    /\ UNCHANGED adapterVars

Next ==
    \/ ProcessExperts
    \/ ProcessExpertsRaises
    \/ SeedIndex
    \/ SeedIndexRaises
    \/ OrcidSkipped
    \/ OrcidInitRaises
    \/ OrcidInit
    \/ OrcidFetch
    \/ OrcidRegister
    \/ OrcidSave
    \/ KnowhubFetch
    \/ KnowhubFetchFails
    \/ KnowhubRegister
    \/ WebsiteFetch
    \/ WebsiteFetchFails
    \/ WebsiteRegister
    \/ NoAdditionalContent
    \/ ExportRaises

Spec == Init /\ [][Next]_vars

----------------------------------------------------------------------------
(* SpecSecondSource: process_additional_sources on any table it may be handed, up to the
   end of its first source block that runs without credentials (Knowhub) *)

\* rows of a table handed to process_additional_sources: the DOI cell may be NaN or ''
HandedRows == [DOI : {NoneVal, EmptyStr, <<"10.1/x">>}, Title : {<<"A">>, <<"B">>}]

\* the tables: the DOI column holds at least one string (Series.str needs one)
HandedTables ==
    {t \in BoundedSeq(HandedRows, MaxHanded) : \E i \in DOMAIN t : t[i].DOI # NoneVal}

InitSecondSource ==
    /\ InitExporter
    /\ lastCall = NoCall
    /\ registered = {}
    /\ pc = "initialize"
    /\ openalex_df \in HandedTables
    /\ orcid_column = FALSE
    /\ credentials = FALSE
    /\ orcids = 0
    /\ fetched = <<>>
    /\ unique = <<>>
    /\ orcid_results = <<>>
    /\ all_content = <<>>
    /\ errors = {}
    /\ InitAdapters

NextSecondSource ==
    \/ SeedIndex
    \/ OrcidSkipped
    \/ KnowhubFetch
    \/ KnowhubFetchFails
    \/ KnowhubRegister

SpecSecondSource == InitSecondSource /\ [][NextSecondSource]_vars

----------------------------------------------------------------------------
(* Scrapers: KnowhubScraper.fetch_publications and WebsiteScraper.fetch_content *)

MaxPages == 2
MaxLimit == 2

KnowhubBase == "https://knowhub.aphrc.org"
WebsiteBase == "https://aphrc.org"

\* the entries of a listing page, as the parsers see them: whether the entry has a title
\* anchor, the anchor's href and text, whether the request for the detail page succeeds,
\* the DOI found on the detail page and the DOI found in the listing entry itself
Entry1 == [anchor |-> TRUE, href |-> <<"/handle/", "1">>, text |-> <<"a">>,
           detail |-> "ok", doi |-> EmptyStr, listing_doi |-> EmptyStr]
Entry2 == [anchor |-> TRUE, href |-> <<"/handle/", "2">>, text |-> <<"b">>,
           detail |-> "ok", doi |-> <<"10.1/x">>, listing_doi |-> EmptyStr]
EntryNoAnchor == [anchor |-> FALSE, href |-> EmptyStr, text |-> EmptyStr,
                  detail |-> "ok", doi |-> EmptyStr, listing_doi |-> EmptyStr]
EntryAbsolute1 == [anchor |-> TRUE, href |-> <<KnowhubBase, "/handle/", "1">>, text |-> <<"a", " ">>,
                   detail |-> "ok", doi |-> EmptyStr, listing_doi |-> EmptyStr]
EntryBlank3 == [anchor |-> TRUE, href |-> <<"/handle/", "3">>, text |-> <<" ">>,
                detail |-> "ok", doi |-> EmptyStr, listing_doi |-> EmptyStr]
EntryNoDetail2 == [anchor |-> TRUE, href |-> <<"/handle/", "2">>, text |-> <<"b">>,
                   detail |-> "error", doi |-> <<"10.1/x">>, listing_doi |-> EmptyStr]

\* what a request for a listing page gives: it raises (or, for Knowhub, answers with a
\* status other than 200), or it lists entries, possibly none
EmptyPage == [status |-> "ok", items |-> <<>>]
ErrorPage == [status |-> "error", items |-> <<>>]
ListingPages == {EmptyPage,
                 ErrorPage,
                 [status |-> "ok", items |-> <<Entry1, Entry2>>],
                 [status |-> "ok", items |-> <<EntryNoAnchor, EntryAbsolute1, EntryBlank3>>],
                 [status |-> "ok", items |-> <<EntryNoAnchor, EntryNoDetail2>>]}

\* a listing: its pages in order; the pages after the last one list nothing
Sites == BoundedSeq(ListingPages, MaxPages)
Page(site, n) == IF n \in DOMAIN site THEN site[n] ELSE EmptyPage

\* str.strip() on the text of an anchor
RECURSIVE LStrip(_)
LStrip(s) == IF s # <<>> /\ Head(s) = " " THEN LStrip(Tail(s)) ELSE s
RECURSIVE RStrip(_)
RStrip(s) == IF s # <<>> /\ s[Len(s)] = " " THEN RStrip(SubSeq(s, 1, Len(s) - 1)) ELSE s
Strip(s) == RStrip(LStrip(s))

\* url = href if href.startswith('http') else base_url + href
AbsoluteUrl(base, href) ==
    IF href # <<>> /\ href[1] \in {KnowhubBase, WebsiteBase} THEN href ELSE <<base>> \o href

\* url.split('handle/')[-1] if 'handle' in url else ''
Handle(url) ==
    LET at == {i \in DOMAIN url : url[i] = "/handle/"} IN
    IF at = {} THEN EmptyStr
    ELSE SubSeq(url, (CHOOSE i \in at : \A j \in at : j <= i) + 1, Len(url))

\* s[:n]
Take(s, n) == SubSeq(s, 1, IF n < Len(s) THEN n ELSE Len(s))

\* one entry of the request log: a listing page or a detail page, and how many records
\* the fetch call had accumulated when the request was issued
ListingRequest(section, page, have) ==
    [kind |-> "listing", section |-> section, page |-> page, url |-> EmptyStr, have |-> have]
DetailRequest(section, url, have) ==
    [kind |-> "detail", section |-> section, page |-> 0, url |-> url, have |-> have]

\* the None a parser returns instead of a record
NoPub == [title |-> EmptyStr, doi |-> EmptyStr, url |-> EmptyStr, handle |-> EmptyStr,
          source |-> "", content_type |-> "", none |-> TRUE]

\* KnowhubScraper._parse_publication: the record, or None, and the detail request it made
_parse_publication(item, have) ==
    IF ~item.anchor THEN [pub |-> NoPub, requests |-> <<>>]
    ELSE LET url == AbsoluteUrl(KnowhubBase, item.href) IN
         IF item.detail = "error"
         THEN [pub |-> NoPub, requests |-> <<DetailRequest("browse", url, have)>>]
         ELSE [pub |-> [title |-> Strip(item.text), doi |-> item.doi, url |-> url,
                        handle |-> Handle(url), source |-> "knowhub",
                        content_type |-> "publication", none |-> FALSE],
               requests |-> <<DetailRequest("browse", url, have)>>]

\* mutant: an entry that gives no record ends the loop over the page
RECURSIVE fetch_publications_items_abort(_, _, _)
fetch_publications_items_abort(items, limit, st) ==
    IF items = <<>> THEN st
    ELSE LET p == _parse_publication(Head(items), Len(st.publications))
             st1 == [st EXCEPT !.requests = @ \o p.requests]
         IN IF p.pub.none THEN st1
            ELSE IF p.pub.handle \notin st.seen_handles
            THEN LET st2 == [st1 EXCEPT !.seen_handles = @ \cup {p.pub.handle},
                                        !.publications = Append(@, p.pub),
                                        !.items_processed = @ + 1]
                 IN IF limit > 0 /\ Len(st2.publications) >= limit
                    THEN st2
                    ELSE fetch_publications_items_abort(Tail(items), limit, st2)
            ELSE fetch_publications_items_abort(Tail(items), limit, st1)

\* KnowhubScraper.fetch_publications: for item in items
RECURSIVE fetch_publications_items(_, _, _)
fetch_publications_items(items, limit, st) ==
    IF items = <<>> THEN st
    ELSE LET p == _parse_publication(Head(items), Len(st.publications))
             st1 == [st EXCEPT !.requests = @ \o p.requests]
         IN IF ~p.pub.none /\ p.pub.handle \notin st.seen_handles
            THEN LET st2 == [st1 EXCEPT !.seen_handles = @ \cup {p.pub.handle},
                                        !.publications = Append(@, p.pub),
                                        !.items_processed = @ + 1]
                 IN IF limit > 0 /\ Len(st2.publications) >= limit
                    THEN st2
                    ELSE fetch_publications_items(Tail(items), limit, st2)
            ELSE fetch_publications_items(Tail(items), limit, st1)

\* mutant: the loop goes on after a page that added nothing
RECURSIVE fetch_publications_pages_no_stop(_, _, _, _)
fetch_publications_pages_no_stop(site, limit, page, st) ==
    IF ~(Len(st.publications) < limit \/ limit = 0) THEN st
    ELSE LET listing == Page(site, page)
             st1 == [st EXCEPT !.requests = Append(@, ListingRequest("browse", page, Len(st.publications)))]
         IN IF listing.status # "ok" THEN st1
            ELSE IF listing.items = <<>> THEN st1
            ELSE LET st2 == fetch_publications_items(listing.items, limit,
                                                     [st1 EXCEPT !.items_processed = 0])
                 IN IF limit > 0 /\ Len(st2.publications) >= limit THEN st2
                    ELSE fetch_publications_pages_no_stop(site, limit, page + 1, st2)

\* KnowhubScraper.fetch_publications: while len(publications) < limit or limit == 0
RECURSIVE fetch_publications_pages(_, _, _, _)
fetch_publications_pages(site, limit, page, st) ==
    IF ~(Len(st.publications) < limit \/ limit = 0) THEN st
    ELSE LET listing == Page(site, page)
             st1 == [st EXCEPT !.requests = Append(@, ListingRequest("browse", page, Len(st.publications)))]
         IN IF listing.status # "ok" THEN st1
            ELSE IF listing.items = <<>> THEN st1
            ELSE LET st2 == fetch_publications_items(listing.items, limit,
                                                     [st1 EXCEPT !.items_processed = 0])
                 IN IF limit > 0 /\ Len(st2.publications) >= limit THEN st2
                    ELSE IF st2.items_processed = 0 THEN st2
                    ELSE fetch_publications_pages(site, limit, page + 1, st2)

\* mutant: a page that lists nothing is handled as an error and the call returns []
fetch_publications_empty_is_error(site, limit, seen) ==
    LET st == fetch_publications_pages(site, limit, 1,
                  [publications |-> <<>>, seen_handles |-> seen, requests |-> <<>>,
                   items_processed |-> 0])
        last == st.requests[Len(st.requests)]
    IN [result |-> IF last.kind = "listing" /\ Page(site, last.page) = EmptyPage THEN <<>>
                   ELSE IF limit > 0 THEN Take(st.publications, limit) ELSE st.publications,
        seen_handles |-> st.seen_handles,
        requests |-> st.requests]

\* KnowhubScraper.fetch_publications(limit) on a scraper whose seen_handles is seen
fetch_publications(site, limit, seen) ==
    LET st == fetch_publications_pages(site, limit, 1,
                  [publications |-> <<>>, seen_handles |-> seen, requests |-> <<>>,
                   items_processed |-> 0])
    IN [result |-> IF limit > 0 THEN Take(st.publications, limit) ELSE st.publications,
        seen_handles |-> st.seen_handles,
        requests |-> st.requests]

\* WebsiteScraper.content_types, in the order of the dictionary's keys
\* KnowhubScraper.search_publications and get_collection_items: while len(publications) <
\* limit or limit == 0.  The loop has no handler of its own: a request that raises leaves it
\* for the except of the method.
RECURSIVE search_publications_pages(_, _, _, _)
search_publications_pages(site, limit, page, st) ==
    IF ~(Len(st.publications) < limit \/ limit = 0) THEN st
    ELSE LET listing == Page(site, page)
             st1 == [st EXCEPT !.requests = Append(@, ListingRequest("browse", page, Len(st.publications)))]
         IN IF listing.status # "ok" THEN [st1 EXCEPT !.raised = TRUE]
            ELSE IF listing.items = <<>> THEN st1
            ELSE LET st2 == fetch_publications_items(listing.items, limit, st1)
                 IN IF limit > 0 /\ Len(st2.publications) >= limit THEN st2
                    ELSE search_publications_pages(site, limit, page + 1, st2)

\* KnowhubScraper.search_publications(query, limit) on a scraper whose seen_handles is seen:
\* except Exception: return []
search_publications(site, limit, seen) ==
    LET st == search_publications_pages(site, limit, 1,
                  [publications |-> <<>>, seen_handles |-> seen, requests |-> <<>>,
                   items_processed |-> 0, raised |-> FALSE])
    IN [result |-> IF st.raised THEN <<>>
                   ELSE IF limit > 0 THEN Take(st.publications, limit) ELSE st.publications,
        seen_handles |-> st.seen_handles,
        requests |-> st.requests]

\* KnowhubScraper.get_collection_items(collection_id, limit): the same loop with an offset
\* for the page number, and the same except
get_collection_items(site, limit, seen) == search_publications(site, limit, seen)

ContentTypeKeys == <<"publications", "blogs", "press", "news", "stories">>
ContentTypes == {ContentTypeKeys[i] : i \in DOMAIN ContentTypeKeys}

\* WebsiteScraper._parse_content_item: the record, or None, and the detail request it made;
\* when the detail request fails the listing entry itself is read instead
_parse_content_item(item, content_type, have) ==
    IF ~item.anchor THEN [pub |-> NoPub, requests |-> <<>>]
    ELSE LET url == AbsoluteUrl(WebsiteBase, item.href) IN
         [pub |-> [title |-> Strip(item.text),
                   doi |-> IF item.detail = "ok" THEN item.doi ELSE item.listing_doi,
                   url |-> url, handle |-> EmptyStr, source |-> "website",
                   content_type |-> content_type, none |-> FALSE],
          requests |-> <<DetailRequest(content_type, url, have)>>]

\* WebsiteScraper._fetch_content_type: for item in content_items
RECURSIVE _fetch_content_type_items(_, _, _, _, _)
_fetch_content_type_items(content_items, content_type, limit, st, got) ==
    IF content_items = <<>> THEN st
    ELSE LET p == _parse_content_item(Head(content_items), content_type, got + Len(st.items))
             st1 == [st EXCEPT !.requests = @ \o p.requests]
         IN IF ~p.pub.none /\ p.pub.url \notin st.seen_urls
            THEN LET st2 == [st1 EXCEPT !.seen_urls = @ \cup {p.pub.url},
                                        !.items = Append(@, p.pub)]
                 IN IF limit > 0 /\ Len(st2.items) >= limit
                    THEN st2
                    ELSE _fetch_content_type_items(Tail(content_items), content_type, limit, st2, got)
            ELSE _fetch_content_type_items(Tail(content_items), content_type, limit, st1, got)

\* WebsiteScraper._fetch_content_type: while len(items) < limit or limit == 0
RECURSIVE _fetch_content_type_pages(_, _, _, _, _, _)
_fetch_content_type_pages(site, content_type, limit, page, st, got) ==
    IF ~(Len(st.items) < limit \/ limit = 0) THEN st
    ELSE LET listing == Page(site, page)
             st1 == [st EXCEPT !.requests =
                                  Append(@, ListingRequest(content_type, page, got + Len(st.items)))]
         IN IF listing.status # "ok" THEN st1
            ELSE IF listing.items = <<>> THEN st1
            ELSE LET st2 == _fetch_content_type_items(listing.items, content_type, limit, st1, got)
                 IN IF limit > 0 /\ Len(st2.items) >= limit THEN st2
                    ELSE _fetch_content_type_pages(site, content_type, limit, page + 1, st2, got)

\* WebsiteScraper._fetch_content_type(content_type, base_url, limit); got is the number of
\* records fetch_content holds when it makes the call (kept for the request log only)
_fetch_content_type(site, content_type, limit, got) ==
    LET st == _fetch_content_type_pages(site, content_type, limit, 1,
                  [items |-> <<>>, seen_urls |-> {}, requests |-> <<>>], got)
    IN [items |-> IF limit > 0 THEN Take(st.items, limit) ELSE st.items,
        requests |-> st.requests]

\* WebsiteScraper.fetch_content: for content_type in types_to_fetch
RECURSIVE fetch_content_types(_, _, _, _)
fetch_content_types(sections, types_to_fetch, limit, acc) ==
    IF types_to_fetch = <<>> THEN acc
    ELSE LET content_type == Head(types_to_fetch) IN
         IF content_type \notin ContentTypes
         THEN fetch_content_types(sections, Tail(types_to_fetch), limit, acc)
         ELSE LET r == _fetch_content_type(sections[content_type], content_type, limit,
                                           Len(acc.all_items))
              IN fetch_content_types(sections, Tail(types_to_fetch), limit,
                     [all_items |-> acc.all_items \o r.items,
                      parts |-> Append(acc.parts, [content_type |-> content_type, items |-> r.items,
                                                   requests |-> r.requests]),
                      requests |-> acc.requests \o r.requests])

\* WebsiteScraper.fetch_content(content_types, limit)
fetch_content(sections, content_types, limit) ==
    fetch_content_types(sections,
                        IF content_types = NoneVal \/ content_types = <<>>
                        THEN ContentTypeKeys ELSE content_types,
                        limit,
                        [all_items |-> <<>>, parts |-> <<>>, requests |-> <<>>])

----------------------------------------------------------------------------
(* SpecScrapers: any sequence of fetch calls on one KnowhubScraper and one WebsiteScraper *)

NoSections == [t \in ContentTypes |-> <<>>]

\* what the two sites serve: a Knowhub browse listing, or website sections of which
\* 'publications' lists entries on several pages and 'blogs' on at most one
Upstreams ==
    {[browse |-> site, sections |-> NoSections] : site \in Sites}
    \cup {[browse |-> <<>>,
           sections |-> [t \in ContentTypes |-> IF t = "publications" THEN s1
                                                 ELSE IF t = "blogs" THEN s2 ELSE <<>>]] :
          s1 \in Sites, s2 \in BoundedSeq(ListingPages, 1)}

\* the content_types arguments of fetch_content: the default, one type, an unknown type
ContentTypeArgs == {NoneVal, <<"blogs">>, <<"videos", "publications">>}

InitScrapers ==
    /\ InitExporter
    /\ lastCall = NoCall
    /\ registered = {}
    /\ pc = "scrapers"
    /\ openalex_df = <<>>
    /\ orcid_column = FALSE
    /\ credentials = FALSE
    /\ orcids = 0
    /\ fetched = <<>>
    /\ unique = <<>>
    /\ orcid_results = <<>>
    /\ all_content = <<>>
    /\ errors = {}
    /\ upstream \in Upstreams
    /\ seen_handles = {}
    /\ fetch = NoFetch
    /\ attempt = 0
    /\ requests = 0
    /\ response = NoResponse
    /\ outcome = NoOutcome
    /\ works = 0
    /\ publications = 0
    /\ InitBatch

\* knowhub_scraper.fetch_publications(limit)
CallFetchPublications(limit) ==
    LET r == fetch_publications(upstream.browse, limit, seen_handles) IN
    /\ seen_handles' = r.seen_handles
    /\ fetch' = [op |-> "fetch_publications", limit |-> limit, content_types |-> NoneVal,
                 result |-> r.result, parts |-> <<>>, requests |-> r.requests,
                 seen_before |-> seen_handles]
    /\ UNCHANGED <<upstream, indexVars, apiVars, runVars, retryVars, batchVars>>

\* knowhub_scraper.search_publications(query, limit)
CallSearchPublications(limit) ==
    LET r == search_publications(upstream.browse, limit, seen_handles) IN
    /\ seen_handles' = r.seen_handles
    /\ fetch' = [op |-> "search_publications", limit |-> limit, content_types |-> NoneVal,
                 result |-> r.result, parts |-> <<>>, requests |-> r.requests,
                 seen_before |-> seen_handles]
    /\ UNCHANGED <<upstream, indexVars, apiVars, runVars, retryVars, batchVars>>

\* knowhub_scraper.get_collection_items(collection_id, limit)
CallGetCollectionItems(limit) ==
    LET r == get_collection_items(upstream.browse, limit, seen_handles) IN
    /\ seen_handles' = r.seen_handles
    /\ fetch' = [op |-> "get_collection_items", limit |-> limit, content_types |-> NoneVal,
                 result |-> r.result, parts |-> <<>>, requests |-> r.requests,
                 seen_before |-> seen_handles]
    /\ UNCHANGED <<upstream, indexVars, apiVars, runVars, retryVars, batchVars>>

\* website_scraper.fetch_content(content_types, limit)
CallFetchContent(content_types, limit) ==
    LET r == fetch_content(upstream.sections, content_types, limit) IN
    /\ fetch' = [op |-> "fetch_content", limit |-> limit, content_types |-> content_types,
                 result |-> r.all_items, parts |-> r.parts, requests |-> r.requests,
                 seen_before |-> {}]
    /\ UNCHANGED <<upstream, seen_handles, indexVars, apiVars, runVars, retryVars, batchVars>>

NextScrapers ==
    \/ \E limit \in 0..MaxLimit : CallFetchPublications(limit)
    \/ \E limit \in 0..MaxLimit : CallSearchPublications(limit)
    \/ \E limit \in 0..MaxLimit : CallGetCollectionItems(limit)
    \/ \E content_types \in ContentTypeArgs, limit \in 0..MaxLimit :
          CallFetchContent(content_types, limit)

SpecScrapers == InitScrapers /\ [][NextScrapers]_vars

----------------------------------------------------------------------------
(* SpecRetry: the calls of OpenAlexCSVProcessor.get_expert_data and of
   OrcidScraper._process_works with its _get_detailed_work, request by request *)

MaxRequests == 4
MaxWorks == 2

\* for attempt in range(3)
MaxAttempts == 3

\* what the upstream can answer to one request: a status with a body, or nothing (the
\* connection fails or times out)
Answers ==
    {[present |-> TRUE, status |-> 200, body |-> "results"],
     [present |-> TRUE, status |-> 200, body |-> "empty"],
     [present |-> TRUE, status |-> 200, body |-> "invalid"],
     [present |-> TRUE, status |-> 429, body |-> ""],
     [present |-> TRUE, status |-> 401, body |-> ""],
     [present |-> TRUE, status |-> 500, body |-> ""],
     NoResponse}

\* the return value of get_expert_data when no author was found
FailureValue == <<EmptyStr, EmptyStr>>

\* (orcid, openalex_id) of results[0]; OpenAlex may have no ORCID for an author
AuthorValues == {<<<<"https://orcid.org/0000">>, <<"https://openalex.org/A1">>>>,
                 <<NoneVal, <<"https://openalex.org/A1">>>>}

InitRetry ==
    /\ InitExporter
    /\ lastCall = NoCall
    /\ registered = {}
    /\ pc = "idle"
    /\ openalex_df = <<>>
    /\ orcid_column = FALSE
    /\ credentials = FALSE
    /\ orcids = 0
    /\ fetched = <<>>
    /\ unique = <<>>
    /\ orcid_results = <<>>
    /\ all_content = <<>>
    /\ errors = {}
    /\ InitAdapters

\* process_csv: expert_data = await self.get_expert_data(session, first_name, last_name)
CallGetExpertData ==
    /\ pc = "idle"
    /\ pc' = "get_expert_data"
    /\ attempt' = 0
    /\ requests' = 0
    /\ response' = NoResponse
    /\ outcome' = NoOutcome
    /\ UNCHANGED <<works, publications, scraperVars, batchVars, indexVars, apiVars>>
    /\ UNCHANGED <<openalex_df, orcid_column, credentials, orcids, fetched, unique,
                   orcid_results, all_content, errors>>

\* mutant: a rate-limited request is repeated without using up an attempt
ExpertRequest_free_retry(answer, author) ==
    /\ pc = "get_expert_data"
    /\ attempt < MaxAttempts
    /\ requests < MaxRequests
    /\ requests' = requests + 1
    /\ response' = answer
    /\ IF answer.status = 200 /\ answer.body = "results"
       THEN /\ outcome' = [call |-> "get_expert_data", value |-> author, raised |-> FALSE]
            /\ pc' = "idle"
            /\ UNCHANGED attempt
       ELSE /\ attempt' = IF answer.status = 429 THEN attempt ELSE attempt + 1
            /\ UNCHANGED <<pc, outcome>>
    /\ UNCHANGED <<works, publications, scraperVars, batchVars, indexVars, apiVars>>
    /\ UNCHANGED <<openalex_df, orcid_column, credentials, orcids, fetched, unique,
                   orcid_results, all_content, errors>>

\* get_expert_data: one iteration of the loop: the request and what follows its answer.
\* A 200 with results returns; a 200 without results, a 429 (after the sleep), any other
\* status and an exception (also one raised while reading the body) go to the next attempt.
ExpertRequest(answer, author) ==
    /\ pc = "get_expert_data"
    /\ attempt < MaxAttempts
    /\ requests < MaxRequests
    /\ requests' = requests + 1
    /\ response' = answer
    /\ IF answer.status = 200 /\ answer.body = "results"
       THEN /\ outcome' = [call |-> "get_expert_data", value |-> author, raised |-> FALSE]
            /\ pc' = "idle"
            /\ UNCHANGED attempt
       ELSE /\ attempt' = attempt + 1
            /\ UNCHANGED <<pc, outcome>>
    /\ UNCHANGED <<works, publications, scraperVars, batchVars, indexVars, apiVars>>
    /\ UNCHANGED <<openalex_df, orcid_column, credentials, orcids, fetched, unique,
                   orcid_results, all_content, errors>>

\* get_expert_data: the loop is over, return '', ''
ExpertExhausted ==
    /\ pc = "get_expert_data"
    /\ attempt = MaxAttempts
    /\ outcome' = [call |-> "get_expert_data", value |-> FailureValue, raised |-> FALSE]
    /\ pc' = "idle"
    /\ UNCHANGED <<attempt, requests, response, works, publications, scraperVars, batchVars, indexVars,
                   apiVars>>
    /\ UNCHANGED <<openalex_df, orcid_column, credentials, orcids, fetched, unique,
                   orcid_results, all_content, errors>>

\* _process_works: the works listing has been read, data["group"] holds n works
CallProcessWorks(n) ==
    /\ pc = "idle"
    /\ pc' = "process_works"
    /\ works' = n
    /\ publications' = 0
    /\ requests' = 0
    /\ response' = NoResponse
    /\ outcome' = NoOutcome
    /\ UNCHANGED <<attempt, scraperVars, batchVars, indexVars, apiVars>>
    /\ UNCHANGED <<openalex_df, orcid_column, credentials, orcids, fetched, unique,
                   orcid_results, all_content, errors>>

\* _process_works: the next work has a put-code, _get_detailed_work is called
StartWork ==
    /\ pc = "process_works"
    /\ works > 0
    /\ pc' = "get_detailed_work"
    /\ requests' = 0
    /\ response' = NoResponse
    /\ UNCHANGED <<attempt, outcome, works, publications, scraperVars, batchVars, indexVars, apiVars>>
    /\ UNCHANGED <<openalex_df, orcid_column, credentials, orcids, fetched, unique,
                   orcid_results, all_content, errors>>

\* _process_works: the next work has no work-summary or no put-code, continue
SkipMalformedWork ==
    /\ pc = "process_works"
    /\ works > 0
    /\ works' = works - 1
    /\ UNCHANGED <<pc, attempt, requests, response, outcome, publications, scraperVars, batchVars,
                   indexVars, apiVars>>
    /\ UNCHANGED <<openalex_df, orcid_column, credentials, orcids, fetched, unique,
                   orcid_results, all_content, errors>>

\* mutant: a response counts as true whenever there is one
ResponseTruthy_present(r) == r.present

\* the truth value of e.response: None is false, and requests.Response.__bool__ is
\* Response.ok, false for every status from 400 on
ResponseTruthy(r) == r.present /\ r.status < 400

\* _get_detailed_work: if e.response and e.response.status_code == 429
RetriesRequest(r) == ResponseTruthy(r) /\ r.status = 429

\* _get_detailed_work: one request and what follows its answer.  _make_request raises for
\* a missing response and for a status from 400 on; response.json() raises for an invalid
\* body.  The exception either starts the call again or goes up to _process_works, whose
\* except logs it and continues with the next work.  A returned body is converted and
\* appended, or dropped (empty body, no APHRC affiliation, no title).
DetailedWorkRequest(answer, appended) ==
    /\ pc = "get_detailed_work"
    /\ requests < MaxRequests
    /\ requests' = requests + 1
    /\ response' = answer
    /\ IF answer.present /\ answer.status = 200 /\ answer.body # "invalid"
       THEN /\ pc' = "process_works"
            /\ works' = works - 1
            /\ publications' = IF answer.body = "results" /\ appended
                               THEN publications + 1 ELSE publications
       ELSE IF RetriesRequest(answer)
       THEN UNCHANGED <<pc, works, publications>>
       ELSE /\ pc' = "process_works"
            /\ works' = works - 1
            /\ UNCHANGED publications
    /\ UNCHANGED <<attempt, outcome, scraperVars, batchVars, indexVars, apiVars>>
    /\ UNCHANGED <<openalex_df, orcid_column, credentials, orcids, fetched, unique,
                   orcid_results, all_content, errors>>

\* _process_works: return publications
ProcessWorksReturn ==
    /\ pc = "process_works"
    /\ works = 0
    /\ outcome' = [call |-> "_process_works", value |-> publications, raised |-> FALSE]
    /\ pc' = "idle"
    /\ UNCHANGED <<attempt, requests, response, works, publications, scraperVars, batchVars, indexVars,
                   apiVars>>
    /\ UNCHANGED <<openalex_df, orcid_column, credentials, orcids, fetched, unique,
                   orcid_results, all_content, errors>>

NextRetry ==
    \/ CallGetExpertData
    \/ \E answer \in Answers, author \in AuthorValues : ExpertRequest(answer, author)
    \/ ExpertExhausted
    \/ \E n \in 0..MaxWorks : CallProcessWorks(n)
    \/ StartWork
    \/ SkipMalformedWork
    \/ \E answer \in Answers, appended \in BOOLEAN : DetailedWorkRequest(answer, appended)
    \/ ProcessWorksReturn

SpecRetry == InitRetry /\ [][NextRetry]_vars

----------------------------------------------------------------------------
(* SpecRoster: OpenAlexCSVProcessor.process_csv on any roster *)

MaxRoster == 2

\* pandas' NaN in a cell of the roster
NaN == <<"nan">>

\* one row of the experts CSV with what the OpenAlex calls made for it give:
\*   "author"      get_expert_data returns (orcid, openalex_id), the works are listed
\*   "none"        get_expert_data returns ('', '')
\*   "works_raise" an author is found and the works listing answers "results": null, so
\*                 get_expert_domains raises TypeError on "for work in works"
RosterRows == [First_name : {<<"Ann">>, NaN}, Last_name : {<<"Lee">>},
               lookup : {"author", "none", "works_raise"}]

\* pd.read_csv(input_csv_path): a CSV file has a column in every row or in none
Rosters == [first_column : BOOLEAN, last_column : BOOLEAN, rows : BoundedSeq(RosterRows, MaxRoster)]

\* the locals of process_csv before the first row
NoLocals == [first_name |-> "unbound", last_name |-> "unbound", experts_enriched |-> <<>>,
             publications_data |-> <<>>, raised |-> FALSE]

\* except Exception as e: logger.error(f"Error processing {first_name} {last_name}: {e}"); continue
\* the f-string reads both locals: an unbound one raises UnboundLocalError out of the handler
process_csv_except(st) ==
    IF st.first_name = "unbound" \/ st.last_name = "unbound"
    THEN [st EXCEPT !.raised = TRUE]
    ELSE st

\* process_csv: the body of the loop for row i.  row['First_name'] raises KeyError when the
\* table has no such column (a NaN cell reads as NaN); expert_data is a tuple of two
\* strings, true also when it is ('', ''), so the row is appended whatever the lookup gave;
\* get_expert_domains and get_expert_works run only for a non-empty OpenAlex id.
process_csv_row(df, i, st) ==
    IF ~df.first_column THEN process_csv_except(st)
    ELSE LET st1 == [st EXCEPT !.first_name = df.rows[i].First_name] IN
         IF ~df.last_column THEN process_csv_except(st1)
         ELSE LET st2 == [st1 EXCEPT !.last_name = df.rows[i].Last_name]
                  lookup == df.rows[i].lookup
              IN IF lookup = "works_raise" THEN process_csv_except(st2)
                 ELSE [st2 EXCEPT
                          !.experts_enriched =
                              Append(@, [row |-> i,
                                         OpenAlex_ID |-> IF lookup = "author"
                                                         THEN <<"https://openalex.org/A1">>
                                                         ELSE EmptyStr]),
                          !.publications_data =
                              IF lookup = "author" THEN Append(@, [row |-> i]) ELSE @]

\* process_csv: for _, row in df.iterrows()
RECURSIVE process_csv_rows(_, _, _)
process_csv_rows(df, i, st) ==
    IF i > Len(df.rows) \/ st.raised THEN st
    ELSE process_csv_rows(df, i + 1, process_csv_row(df, i, st))

\* process_csv(input_csv_path): the two tables, or the exception that leaves the call
process_csv(df) ==
    LET st == process_csv_rows(df, 1, NoLocals) IN
    [experts_df |-> IF st.raised THEN <<>> ELSE st.experts_enriched,
     publications_df |-> IF st.raised THEN <<>> ELSE st.publications_data,
     raised |-> st.raised]

InitRoster ==
    /\ InitExporter
    /\ lastCall = NoCall
    /\ registered = {}
    /\ pc = "process_experts"
    /\ openalex_df = <<>>
    /\ orcid_column = FALSE
    /\ credentials = FALSE
    /\ orcids = 0
    /\ fetched = <<>>
    /\ unique = <<>>
    /\ orcid_results = <<>>
    /\ all_content = <<>>
    /\ errors = {}
    /\ upstream = [browse |-> <<>>, sections |-> <<>>]
    /\ seen_handles = {}
    /\ fetch = NoFetch
    /\ attempt = 0
    /\ requests = 0
    /\ response = NoResponse
    /\ outcome = NoOutcome
    /\ works = 0
    /\ publications = 0
    /\ roster \in Rosters
    /\ additional_sources = NoSources
    /\ source_dataframes = <<>>

\* process_experts: experts_df, publications_df = await processor.process_csv(input_csv)
CallProcessCsv ==
    LET r == process_csv(roster) IN
    /\ pc = "process_experts"
    /\ outcome' = [call |-> "process_csv",
                   value |-> [experts_df |-> r.experts_df, publications_df |-> r.publications_df],
                   raised |-> r.raised]
    /\ pc' = IF r.raised THEN "failed" ELSE "initialize"
    /\ UNCHANGED <<openalex_df, orcid_column, credentials, orcids, fetched, unique,
                   orcid_results, all_content, errors>>
    /\ UNCHANGED <<attempt, requests, response, works, publications, scraperVars, batchVars,
                   indexVars, apiVars>>

NextRoster == CallProcessCsv

SpecRoster == InitRoster /\ [][NextRoster]_vars

----------------------------------------------------------------------------
(* SpecMerge: the merge step of og_main.main, and merge_all_sources on any tables *)

\* og_main.process_additional_sources: the dictionary it returns for a publications table
\* and the batches the Knowhub and Website scrapers fetch.  Each batch is filtered against
\* the index and registered before the next one is fetched.  The key 'orcid' is never set:
\* without credentials the block is skipped, and with them openalex_df['Expert_ORCID']
\* raises KeyError, the table having no such column; a key that is not set and an empty
\* list are skipped alike by 'if content'.
og_process_additional_sources(df, knowhub_content, website_content) ==
    LET sd0 == initialize_from_openalex_dois({}, df)
        st0 == initialize_from_openalex_titles({}, df)
        unique_knowhub == FilterUnique(knowhub_content, sd0, st0)
        sd1 == RegisterDois(unique_knowhub, sd0)
        st1 == RegisterTitles(unique_knowhub, st0)
        unique_website == FilterUnique(website_content, sd1, st1)
    IN [orcid |-> <<>>,
        knowhub |-> Tagged(unique_knowhub, "Knowhub"),
        website |-> Tagged(unique_website, "Website")]

\* pd.DataFrame([{'Title': item.title, 'DOI': item.doi, ...} for item in content])
ContentTable(content) == [k \in DOMAIN content |-> [DOI |-> content[k].doi, Title |-> content[k].title]]

\* og_main.main: source_dataframes = [openalex_data['publications']], then one table for
\* every entry of additional_sources that has content, in the order the keys were set
og_source_dataframes(df, sources) ==
    <<df>>
    \o (IF sources.orcid # <<>> THEN <<ContentTable(sources.orcid)>> ELSE <<>>)
    \o (IF sources.knowhub # <<>> THEN <<ContentTable(sources.knowhub)>> ELSE <<>>)
    \o (IF sources.website # <<>> THEN <<ContentTable(sources.website)>> ELSE <<>>)

InitMerge ==
    /\ InitExporter
    /\ lastCall = NoCall
    /\ registered = {}
    /\ pc = "merge"
    /\ openalex_df \in BoundedSeq(BaselineRows, MaxBaseline) \ {<<>>}
    /\ orcid_column = FALSE
    /\ credentials = FALSE
    /\ orcids = 0
    /\ fetched = <<>>
    /\ unique = <<>>
    /\ orcid_results = <<>>
    /\ all_content = <<>>
    /\ errors = {}
    /\ upstream = [browse |-> <<>>, sections |-> <<>>]
    /\ seen_handles = {}
    /\ fetch = NoFetch
    /\ attempt = 0
    /\ requests = 0
    /\ response = NoResponse
    /\ outcome = NoOutcome
    /\ works = 0
    /\ publications = 0
    /\ roster = NoRoster
    /\ \E knowhub_content \in Batches, website_content \in BoundedSeq(Records, 1) :
          additional_sources = og_process_additional_sources(openalex_df, knowhub_content,
                                                             website_content)
    /\ source_dataframes = <<>>

\* og_main.main: the tables are collected and merged
OgMainMerge ==
    /\ pc = "merge"
    /\ source_dataframes' = og_source_dataframes(openalex_df, additional_sources)
    /\ lastCall' = [NoCall EXCEPT !.op = "merge_all_sources",
                                  !.result = merge_all_sources(source_dataframes')]
    /\ pc' = "merged"
    /\ UNCHANGED <<openalex_df, orcid_column, credentials, orcids, fetched, unique,
                   orcid_results, all_content, errors>>
    /\ UNCHANGED <<seen_dois, seen_titles, registered, roster, additional_sources>>
    /\ UNCHANGED <<scraperVars, retryVars>>

\* exporter.merge_all_sources(*dfs) on any tables
MergeAllSources(dfs) ==
    /\ pc = "merge"
    /\ source_dataframes' = dfs
    /\ lastCall' = [NoCall EXCEPT !.op = "merge_all_sources", !.result = merge_all_sources(dfs)]
    /\ pc' = "done"
    /\ UNCHANGED <<openalex_df, orcid_column, credentials, orcids, fetched, unique,
                   orcid_results, all_content, errors>>
    /\ UNCHANGED <<seen_dois, seen_titles, registered, roster, additional_sources>>
    /\ UNCHANGED <<scraperVars, retryVars>>

NextMerge ==
    \/ OgMainMerge
    \/ \E dfs \in BoundedSeq(MergeTables, MaxTables) \ {<<>>} : MergeAllSources(dfs)

SpecMerge == InitMerge /\ [][NextMerge]_vars

----------------------------------------------------------------------------
(* SpecPaging: WebsiteScraper._fetch_content_type page by page, against a section that may
   answer every page number *)

\* what a section answers for the page numbers after its last listed page: a page that
\* lists nothing, an error (404), or its last page once more
BeyondKinds == {"empty", "error", "repeat"}

PagedSections == [pages : Sites, beyond : BeyondKinds]

\* the answer to the request for page n of a section
PageOf(section, n) ==
    IF n \in DOMAIN section.pages THEN section.pages[n]
    ELSE IF section.beyond = "repeat" /\ section.pages # <<>>
         THEN section.pages[Len(section.pages)]
         ELSE IF section.beyond = "error" THEN ErrorPage ELSE EmptyPage

\* the locals of _fetch_content_type: items = [], page = 1, seen_urls = set()
FetchLocals(limit) ==
    [op |-> "_fetch_content_type", limit |-> limit, page |-> 1, items |-> <<>>,
     seen_urls |-> {}, result |-> <<>>, returned |-> FALSE]

\* return items[:limit] if limit > 0 else items
FetchReturned(f, items, seen_urls) ==
    [f EXCEPT !.items = items, !.seen_urls = seen_urls, !.returned = TRUE,
              !.result = IF f.limit > 0 THEN Take(items, f.limit) ELSE items]

InitPaging ==
    /\ InitExporter
    /\ lastCall = NoCall
    /\ registered = {}
    /\ pc = "idle"
    /\ openalex_df = <<>>
    /\ orcid_column = FALSE
    /\ credentials = FALSE
    /\ orcids = 0
    /\ fetched = <<>>
    /\ unique = <<>>
    /\ orcid_results = <<>>
    /\ all_content = <<>>
    /\ errors = {}
    /\ upstream \in PagedSections
    /\ seen_handles = {}
    /\ fetch = NoFetch
    /\ attempt = 0
    /\ requests = 0
    /\ response = NoResponse
    /\ outcome = NoOutcome
    /\ works = 0
    /\ publications = 0
    /\ InitBatch

\* fetch_content: items = self._fetch_content_type(content_type, base_url, limit)
CallFetchContentType(limit) ==
    /\ pc = "idle"
    /\ fetch' = FetchLocals(limit)
    /\ pc' = "fetch_content_type"
    /\ UNCHANGED <<upstream, seen_handles, indexVars, apiVars, retryVars, batchVars>>
    /\ UNCHANGED <<openalex_df, orcid_column, credentials, orcids, fetched, unique,
                   orcid_results, all_content, errors>>

\* _fetch_content_type: one pass of the while loop up to its last break: the request for
\* the page and the items of the page; the call returns when the request raises, the page
\* lists no items or limit is reached.  The while condition holds whenever the loop comes
\* back to it, the limit break having been taken otherwise.
FetchContentTypePage ==
    /\ pc = "fetch_content_type"
    /\ Len(fetch.items) < fetch.limit \/ fetch.limit = 0
    /\ LET listing == PageOf(upstream, fetch.page) IN
       IF listing.status # "ok" \/ listing.items = <<>>
       THEN /\ fetch' = FetchReturned(fetch, fetch.items, fetch.seen_urls)
            /\ pc' = "idle"
       ELSE LET st == _fetch_content_type_items(listing.items, "publications", fetch.limit,
                          [items |-> fetch.items, seen_urls |-> fetch.seen_urls,
                           requests |-> <<>>], 0)
            IN IF fetch.limit > 0 /\ Len(st.items) >= fetch.limit
               THEN /\ fetch' = FetchReturned(fetch, st.items, st.seen_urls)
                    /\ pc' = "idle"
               ELSE /\ fetch' = [fetch EXCEPT !.items = st.items, !.seen_urls = st.seen_urls]
                    /\ pc' = "fetch_content_type_next"
    /\ UNCHANGED <<upstream, seen_handles, indexVars, apiVars, retryVars, batchVars>>
    /\ UNCHANGED <<openalex_df, orcid_column, credentials, orcids, fetched, unique,
                   orcid_results, all_content, errors>>

\* _fetch_content_type: page += 1; sleep(1).  The section answers all page numbers after
\* its last page alike, so the counter is followed up to the first of them.
FetchContentTypeNext ==
    /\ pc = "fetch_content_type_next"
    /\ fetch' = [fetch EXCEPT !.page = IF @ > Len(upstream.pages) THEN @ ELSE @ + 1]
    /\ pc' = "fetch_content_type"
    /\ UNCHANGED <<upstream, seen_handles, indexVars, apiVars, retryVars, batchVars>>
    /\ UNCHANGED <<openalex_df, orcid_column, credentials, orcids, fetched, unique,
                   orcid_results, all_content, errors>>

NextPaging ==
    \/ \E limit \in 0..(MaxLimit + 1) : CallFetchContentType(limit)
    \/ FetchContentTypePage
    \/ FetchContentTypeNext

SpecPaging == InitPaging /\ [][NextPaging]_vars

\* a call that has started goes on running
SpecPagingLive == SpecPaging /\ WF_vars(FetchContentTypePage \/ FetchContentTypeNext)

----------------------------------------------------------------------------
(* SpecOrcid: OrcidScraper.fetch_researcher_publications on any works list *)

\* one work of data["group"] as the conversion sees it: the DOI among its external ids
\* ('' when it has none), its title, and whether its detail names an APHRC affiliation
OrcidWorks == [doi : {EmptyStr, <<"10.1/x">>, <<"10.1/X">>}, title : {<<"A">>, EmptyStr},
               affiliated : BOOLEAN]

\* _process_works on the works endpoint when every request succeeds: the works without a
\* title are dropped by _convert_to_unified_content, the works without an APHRC affiliation
\* when check_affiliation is set; put_code names the work a record was made of
RECURSIVE _process_works(_, _, _, _)
_process_works(group, n, source, check_affiliation) ==
    IF n > Len(group) THEN <<>>
    ELSE IF (check_affiliation /\ ~group[n].affiliated) \/ ~Truthy(group[n].title)
         THEN _process_works(group, n + 1, source, check_affiliation)
         ELSE <<[title |-> group[n].title, doi |-> group[n].doi, source |-> source,
                 put_code |-> n]>>
              \o _process_works(group, n + 1, source, check_affiliation)

\* fetch_researcher_publications: for pub in direct_pubs + affiliated_pubs
RECURSIVE CombinePubs(_, _)
CombinePubs(pubs, seen) ==
    IF pubs = <<>> THEN <<>>
    ELSE LET pub == Head(pubs) IN
         IF ~Truthy(pub.doi) \/ pub.doi \notin seen
         THEN <<pub>> \o CombinePubs(Tail(pubs), IF Truthy(pub.doi) THEN seen \cup {pub.doi} ELSE seen)
         ELSE CombinePubs(Tail(pubs), seen)

\* OrcidScraper.fetch_researcher_publications(orcid_id): both lists are read from the same
\* works endpoint
fetch_researcher_publications(group) ==
    CombinePubs(_process_works(group, 1, "orcid", FALSE)
                \o _process_works(group, 1, "affiliation", TRUE), {})

InitOrcid ==
    /\ InitExporter
    /\ lastCall = NoCall
    /\ registered = {}
    /\ pc = "orcid_loop"
    /\ openalex_df = <<>>
    /\ orcid_column = TRUE
    /\ credentials = TRUE
    /\ orcids = 1
    /\ fetched = <<>>
    /\ unique = <<>>
    /\ orcid_results = <<>>
    /\ all_content = <<>>
    /\ errors = {}
    /\ upstream \in [works : BoundedSeq(OrcidWorks, MaxWorks)]
    /\ seen_handles = {}
    /\ fetch = NoFetch
    /\ attempt = 0
    /\ requests = 0
    /\ response = NoResponse
    /\ outcome = NoOutcome
    /\ works = 0
    /\ publications = 0
    /\ InitBatch

\* process_additional_sources: pubs = orcid_scraper.fetch_researcher_publications(orcid_id)
CallFetchResearcherPublications ==
    /\ pc = "orcid_loop"
    /\ orcids > 0
    /\ fetch' = [NoFetch EXCEPT !.op = "fetch_researcher_publications",
                                !.result = fetch_researcher_publications(upstream.works)]
    /\ orcids' = orcids - 1
    /\ UNCHANGED <<pc, openalex_df, orcid_column, credentials, fetched, unique,
                   orcid_results, all_content, errors>>
    /\ UNCHANGED <<upstream, seen_handles, indexVars, apiVars, retryVars, batchVars>>

NextOrcid == CallFetchResearcherPublications

SpecOrcid == InitOrcid /\ [][NextOrcid]_vars

----------------------------------------------------------------------------
(* Properties *)

\* the identity keys of a (doi, title) pair: its non-empty lowercase DOI and title
IdentityKeys(doi, title) ==
    (IF Truthy(doi) THEN {<<"doi", Lower(doi)>>} ELSE {})
    \cup (IF Truthy(title) THEN {<<"title", Lower(title)>>} ELSE {})

\* the derived key of a (doi, title) pair: the lowercase DOI if there is one, else the lowercase title
DerivedKey(doi, title) ==
    IF Truthy(doi) THEN <<"doi", Lower(doi)>> ELSE <<"title", Lower(title)>>

\* the canonical form of a DOI: resolver prefix stripped, lowercase
Canonical(doi) ==
    Lower(IF Len(doi) > 0 /\ doi[1] = "https://doi.org/" THEN Tail(doi) ELSE doi)

\* the run is over
RunOver == pc \in {"returned", "done", "failed"}

\* every record accepted so far by the filter of a non-baseline source
Accepted == all_content \o (IF pc \in {"orcid_loop", "orcid_register"} THEN orcid_results ELSE <<>>) \o unique

\* every key of every baseline row is in the index
BaselineSeeded ==
    /\ HasColumns(openalex_df)
    /\ \A i \in DOMAIN openalex_df :
          /\ Lower(openalex_df[i].DOI) \in seen_dois
          /\ Lower(openalex_df[i].Title) \in seen_titles

\* C1: after a run, no accepted non-baseline record shares an identity key (non-empty
\* lowercase DOI or title) with a baseline record or with any other accepted record,
\* of another source or of the same batch.
C1_NoSharedIdentityKey ==
    RunOver =>
        \A i \in DOMAIN all_content :
            /\ \A b \in DOMAIN openalex_df :
                  IdentityKeys(all_content[i].doi, all_content[i].title)
                      \cap IdentityKeys(openalex_df[b].DOI, openalex_df[b].Title) = {}
            /\ \A j \in DOMAIN all_content :
                  i # j => IdentityKeys(all_content[i].doi, all_content[i].title)
                               \cap IdentityKeys(all_content[j].doi, all_content[j].title) = {}

\* C2: baseline priority: a later-source record whose derived key (lowercase DOI, else
\* lowercase title) equals the derived key of a baseline row is never in an accepted list.
C2_BaselinePriority ==
    \A b \in DOMAIN openalex_df : \A i \in DOMAIN Accepted :
        DerivedKey(Accepted[i].doi, Accepted[i].title)
            # DerivedKey(openalex_df[b].DOI, openalex_df[b].Title)

\* C2 witness: a fetched Knowhub record with the derived key of a baseline row, written
\* differently, has been dropped by the filter
C2_Witness ==
    /\ pc = "knowhub_register"
    /\ \E b \in DOMAIN openalex_df : \E i \in DOMAIN fetched :
          /\ DerivedKey(fetched[i].doi, fetched[i].title)
                 = DerivedKey(openalex_df[b].DOI, openalex_df[b].Title)
          /\ fetched[i].doi # openalex_df[b].DOI
          /\ \A k \in DOMAIN unique : unique[k] # fetched[i]

\* C3: DOI precedence, first half: once a record with a non-empty DOI d is registered,
\* is_duplicate(d', t') is true for every d' equal to d case-insensitively and every title t'.
C3_SameDoiIsDuplicate ==
    \A r \in registered :
        Truthy(r[1]) =>
            \A d \in DoiStrs, t \in OptTitles :
                Lower(d) = Lower(r[1]) => is_duplicate(seen_dois, seen_titles, d, t)

\* C3 witness: a query with the registered DOI in another letter case and an unknown title
\* has answered true
C3_Witness ==
    /\ lastCall.op = "is_duplicate"
    /\ lastCall.result = TRUE
    /\ Truthy(lastCall.title)
    /\ Lower(lastCall.title) \notin seen_titles
    /\ \E r \in registered :
          /\ Truthy(r[1])
          /\ lastCall.doi # r[1]
          /\ Lower(lastCall.doi) = Lower(r[1])

C5_CanonicalDoiRecognised ==
    \A b \in DOMAIN openalex_df : \A i \in DOMAIN Accepted :
        Truthy(Accepted[i].doi) => Canonical(Accepted[i].doi) # Canonical(openalex_df[b].DOI)

\* C6: idempotent registration: after add_content(doi, title) with a non-empty field,
\* is_duplicate(doi, title) is true, and an immediately repeated add_content(doi, title)
\* leaves seen_dois and seen_titles unchanged.
C6_IdempotentRegistration ==
    [][(lastCall'.op = "add_content" /\ (Truthy(lastCall'.doi) \/ Truthy(lastCall'.title)))
        => /\ is_duplicate(seen_dois', seen_titles', lastCall'.doi, lastCall'.title)
           /\ (lastCall.op = "add_content" /\ lastCall.doi = lastCall'.doi
                  /\ lastCall.title = lastCall'.title)
              => (seen_dois' = seen_dois /\ seen_titles' = seen_titles)]_vars

\* C6 witness: a mixed-case pair has been registered and both its keys are in the index
C6_Witness ==
    /\ lastCall.op = "add_content"
    /\ lastCall.doi = <<"10.1/X">>
    /\ lastCall.title = <<"A">>
    /\ seen_dois = {<<"10.1/x">>}
    /\ seen_titles = {<<"a">>}

\* C7: is_duplicate is a pure query: a call leaves seen_dois and seen_titles unchanged,
\* for every argument, None and '' included.
C7_IsDuplicatePure ==
    [][lastCall'.op = "is_duplicate" => (seen_dois' = seen_dois /\ seen_titles' = seen_titles)]_vars

\* C7 witness: a query with None and '' has been answered on a non-empty index
C7_Witness ==
    /\ lastCall.op = "is_duplicate"
    /\ lastCall.doi = NoneVal
    /\ lastCall.title = EmptyStr
    /\ lastCall.result = FALSE
    /\ seen_dois # {}
    /\ seen_titles # {}

\* C8: the index is append-only: no call removes a key from seen_dois or seen_titles.
C8_AppendOnly ==
    [][seen_dois \subseteq seen_dois' /\ seen_titles \subseteq seen_titles']_vars

\* C8 witness: the seed has run on an index that already held keys, and they are still there
C8_Witness ==
    /\ lastCall.op = "initialize_from_openalex"
    /\ Cardinality(seen_dois) > MaxRows
    /\ Cardinality(seen_titles) > MaxRows

\* C9: strict ordering: whenever a non-baseline record is about to be, or has been, checked
\* or registered, the baseline is complete and every baseline key is in the index.
C9_SeedBeforeFilter ==
    /\ pc \in {"process_experts", "initialize"}
          => (fetched = <<>> /\ unique = <<>> /\ orcid_results = <<>> /\ all_content = <<>>)
    /\ (\/ pc \in {"orcid", "orcid_loop", "orcid_register", "knowhub", "knowhub_register",
                   "website", "website_register"}
        \/ fetched # <<>> \/ unique # <<>> \/ orcid_results # <<>> \/ all_content # <<>>)
          => BaselineSeeded

\* C9 witness: a Knowhub batch has been checked against an index seeded from a baseline
C9_Witness ==
    /\ pc = "knowhub_register"
    /\ fetched # <<>>
    /\ Len(unique) < Len(fetched)
    /\ BaselineSeeded

\* C10: partial-failure resilience: when a non-baseline source has failed and the others
\* have delivered records, the run still ends normally with its collection.
C10_PartialFailureResilience ==
    (/\ pc \in {"done", "failed"}
     /\ HasColumns(openalex_df)
     /\ errors \cap {"orcid", "knowhub", "website"} # {})
    => "main" \notin errors

\* s is a prefix of t
IsPrefix(s, t) == Len(s) <= Len(t) /\ SubSeq(t, 1, Len(s)) = s

\* the part of t after its prefix s
Suffix(s, t) == SubSeq(t, Len(s) + 1, Len(t))

\* the (doi, title) pairs of a list of tagged records
Untagged(list) == [i \in DOMAIN list |-> [doi |-> list[i].doi, title |-> list[i].title]]

\* the position of a source in the processing order
SourceRank(tag) ==
    CASE tag = "ORCID" -> 1
      [] tag = "Knowhub" -> 2
      [] tag = "Website" -> 3

\* the records of a batch the index does not know, in the order the source yielded them
NotKnown(r) == ~is_duplicate(seen_dois, seen_titles, r.doi, r.title)

ScenarioBaseline ==
    /\ Len(openalex_df) = 2
    /\ openalex_df[1] = [DOI |-> <<"10.1/x">>, Title |-> <<"A">>]
    /\ openalex_df[2].Title = <<"B">>
    /\ openalex_df[2].DOI \in {NoneVal, EmptyStr}

\* what the second source yields in the scenario: [{title A, doi 10.1/x}, {title b, doi empty}]
ScenarioBatch == <<[doi |-> <<"10.1/x">>, title |-> <<"A">>], [doi |-> EmptyStr, title |-> <<"b">>]>>

ListingLog(log, section) == SelectSeq(log, LAMBDA e : e.kind = "listing" /\ e.section = section)

\* the detail requests of a request log for one section, in order
DetailLog(log, section) == SelectSeq(log, LAMBDA e : e.kind = "detail" /\ e.section = section)

\* the entries listed on pages 1..k of a site, in order
RECURSIVE EntriesUpTo(_, _)
EntriesUpTo(site, k) ==
    IF k = 0 THEN <<>> ELSE EntriesUpTo(site, k - 1) \o Page(site, k).items

\* the records the Knowhub parser makes of a list of entries, None left out
KnowhubParsed(entries) ==
    SelectSeq([i \in DOMAIN entries |-> _parse_publication(entries[i], 0).pub],
              LAMBDA r : ~r.none)

\* the records the Website parser makes of a list of entries, None left out
WebsiteParsed(entries, content_type) ==
    SelectSeq([i \in DOMAIN entries |-> _parse_content_item(entries[i], content_type, 0).pub],
              LAMBDA r : ~r.none)

\* the first record of every origin identifier (field "handle" or "url") not in seen
RECURSIVE KeepFirstBy(_, _, _)
KeepFirstBy(list, seen, field) ==
    IF list = <<>> THEN <<>>
    ELSE IF Head(list)[field] \in seen
         THEN KeepFirstBy(Tail(list), seen, field)
         ELSE <<Head(list)>> \o KeepFirstBy(Tail(list), seen \cup {Head(list)[field]}, field)

\* the first n records if n > 0, all of them if n = 0
UpToLimit(list, n) == IF n > 0 /\ n < Len(list) THEN SubSeq(list, 1, n) ELSE list

\* the handles page j of the browse listing adds to those seen before the call and on
\* the pages before it
AddedBy(j) ==
    {r.handle : r \in {KnowhubParsed(Page(upstream.browse, j).items)[i] :
                         i \in DOMAIN KnowhubParsed(Page(upstream.browse, j).items)}}
    \ (fetch.seen_before
       \cup {KnowhubParsed(EntriesUpTo(upstream.browse, j - 1))[i].handle :
               i \in DOMAIN KnowhubParsed(EntriesUpTo(upstream.browse, j - 1))})

\* the listing pages of one section were requested once each, in the order 1, 2, ...
RequestedInOrder(log, section) ==
    \A i \in DOMAIN ListingLog(log, section) : ListingLog(log, section)[i].page = i

\* C13: for limit > 0 fetch_content returns at most limit records in total, and issues
\* no request once it holds limit records.
C13_LimitCapsTotal ==
    (fetch.op = "fetch_content" /\ fetch.limit > 0)
    => /\ Len(fetch.result) <= fetch.limit
       /\ \A i \in DOMAIN fetch.requests : fetch.requests[i].have < fetch.limit

\* C14 as claimed: with limit = 0 fetch_publications stops only at a page that lists
\* nothing or whose request fails, so every parseable entry of the pages before it has
\* its record among those of the scraper.
C14_UntilExhaustion ==
    (fetch.op = "fetch_publications" /\ fetch.limit = 0)
    => LET k == Len(ListingLog(fetch.requests, "browse")) IN
       /\ RequestedInOrder(fetch.requests, "browse")
       /\ Page(upstream.browse, k).status = "error" \/ Page(upstream.browse, k).items = <<>>
       /\ \A j \in 1..(k - 1) : Page(upstream.browse, j).status = "ok"

\* C14 as amended: with limit = 0 fetch_publications requests the pages 1, 2, ... once
\* each and stops at the first page whose request fails, that lists nothing, or that adds
\* no record (every entry unparseable or of a handle already seen); it returns, in order,
\* the first record of every new handle of the pages before that one.
C14_UntilNothingNew ==
    (fetch.op = "fetch_publications" /\ fetch.limit = 0)
    => LET k == Len(ListingLog(fetch.requests, "browse")) IN
       /\ k >= 1
       /\ RequestedInOrder(fetch.requests, "browse")
       /\ \/ Page(upstream.browse, k).status = "error"
          \/ Page(upstream.browse, k).items = <<>>
          \/ AddedBy(k) = {}
       /\ \A j \in 1..(k - 1) :
             /\ Page(upstream.browse, j).status = "ok"
             /\ AddedBy(j) # {}
       /\ fetch.result
             = KeepFirstBy(KnowhubParsed(EntriesUpTo(upstream.browse, k - 1)),
                           fetch.seen_before, "handle")

\* C14 witness: a call with limit = 0 has stopped at a first page that lists entries none
\* of which gave a record, although the next page lists parseable entries
C14_Witness ==
    /\ fetch.op = "fetch_publications"
    /\ fetch.limit = 0
    /\ fetch.seen_before = {}
    /\ fetch.result = <<>>
    /\ Len(ListingLog(fetch.requests, "browse")) = 1
    /\ Page(upstream.browse, 1).items # <<>>
    /\ KnowhubParsed(Page(upstream.browse, 2).items) # <<>>

\* C15: with limit = 0, when page N of a listing has zero items, no page after N is
\* requested and the call returns the records accumulated from the pages 1..N-1.
C15_StopsAtEmptyPage ==
    /\ (fetch.op = "fetch_publications" /\ fetch.limit = 0)
       => \A n \in DOMAIN ListingLog(fetch.requests, "browse") :
             Page(upstream.browse, n) = EmptyPage
             => /\ Len(ListingLog(fetch.requests, "browse")) = n
                /\ RequestedInOrder(fetch.requests, "browse")
                /\ fetch.result
                      = KeepFirstBy(KnowhubParsed(EntriesUpTo(upstream.browse, n - 1)),
                                    fetch.seen_before, "handle")
    /\ (fetch.op = "fetch_content" /\ fetch.limit = 0)
       => \A p \in DOMAIN fetch.parts :
             LET part == fetch.parts[p]
                 site == upstream.sections[part.content_type]
             IN \A n \in DOMAIN ListingLog(part.requests, part.content_type) :
                   Page(site, n) = EmptyPage
                   => /\ Len(ListingLog(part.requests, part.content_type)) = n
                      /\ RequestedInOrder(part.requests, part.content_type)
                      /\ part.items
                            = KeepFirstBy(WebsiteParsed(EntriesUpTo(site, n - 1), part.content_type),
                                          {}, "url")

\* C15 witness: a Knowhub call with limit = 0 has met an empty second page and has
\* returned the two records of the first page
C15_Witness ==
    /\ fetch.op = "fetch_publications"
    /\ fetch.limit = 0
    /\ Len(upstream.browse) = 2
    /\ upstream.browse[2] = EmptyPage
    /\ Len(ListingLog(fetch.requests, "browse")) = 2
    /\ Len(fetch.result) = 2

\* C16: an entry whose parse gives None is not appended, is not requested again, does not
\* count toward limit and does not keep the later entries of its page from being parsed:
\* the call returns the first records, up to limit, of the new origin identifiers among
\* the parseable entries of the pages it requested, and makes at most one detail request
\* for every entry met.
C16_ParseFailureSkipped ==
    /\ fetch.op = "fetch_publications"
       => LET k == Len(ListingLog(fetch.requests, "browse")) IN
          /\ RequestedInOrder(fetch.requests, "browse")
          /\ fetch.result
                = UpToLimit(KeepFirstBy(KnowhubParsed(EntriesUpTo(upstream.browse, k)),
                                        fetch.seen_before, "handle"),
                            fetch.limit)
          /\ Len(DetailLog(fetch.requests, "browse")) <= Len(EntriesUpTo(upstream.browse, k))
    /\ fetch.op = "fetch_content"
       => \A p \in DOMAIN fetch.parts :
             LET part == fetch.parts[p]
                 site == upstream.sections[part.content_type]
                 k == Len(ListingLog(part.requests, part.content_type))
             IN /\ RequestedInOrder(part.requests, part.content_type)
                /\ part.items
                      = UpToLimit(KeepFirstBy(WebsiteParsed(EntriesUpTo(site, k), part.content_type),
                                              {}, "url"),
                                  fetch.limit)
                /\ Len(DetailLog(part.requests, part.content_type)) <= Len(EntriesUpTo(site, k))

\* C16 witness: a Knowhub call with limit = 2 has met, on one page, an entry without a
\* title anchor followed by parseable entries, and has returned two records from that page
C16_Witness ==
    /\ fetch.op = "fetch_publications"
    /\ fetch.limit = 2
    /\ Len(fetch.result) = 2
    /\ Len(ListingLog(fetch.requests, "browse")) = 1
    /\ ~Page(upstream.browse, 1).items[1].anchor

\* C17: the list one fetch call returns holds no two records with the same origin
\* identifier: the same handle for Knowhub, the same url for the website.
C17_NoRepeatedOrigin ==
    /\ fetch.op = "fetch_publications"
       => \A i, j \in DOMAIN fetch.result :
             i # j => fetch.result[i].handle # fetch.result[j].handle
    /\ fetch.op = "fetch_content"
       => \A i, j \in DOMAIN fetch.result :
             i # j => fetch.result[i].url # fetch.result[j].url

\* C18: every record an adapter emits has a non-empty title or a non-empty doi.
C18_TitleOrDoi ==
    \A i \in DOMAIN fetch.result : Truthy(fetch.result[i].title) \/ Truthy(fetch.result[i].doi)

\* C19: one call of get_expert_data issues at most 3 requests, whatever the upstream
\* answers, and when no answer carried an author it returns ('', '') without raising.
C19_BoundedRetry ==
    /\ pc = "get_expert_data" => (requests = attempt /\ requests <= 3)
    /\ outcome.call = "get_expert_data"
       => /\ requests <= 3
          /\ ~outcome.raised
          /\ ~(response.status = 200 /\ response.body = "results")
                => (requests = 3 /\ outcome.value = FailureValue)

\* C19 witness: a call has been answered 429 three times and has returned ('', '')
C19_Witness ==
    /\ pc = "idle"
    /\ outcome.call = "get_expert_data"
    /\ outcome.value = <<EmptyStr, EmptyStr>>
    /\ requests = 3
    /\ response.status = 429

\* C20: one call of _get_detailed_work issues at most 3 requests, also when every answer
\* is a 429, and then returns or raises to _process_works, which goes on to the next work;
\* a work whose request failed adds no publication.
C20_DetailedWorkBounded ==
    [][pc = "get_detailed_work"
        => /\ requests' <= 3
           /\ pc' = "process_works"
           /\ works' = works - 1
           /\ response'.status # 200 => publications' = publications]_vars

\* C20 witness: a request for a work has been answered 429; the call ended after that one
\* request and _process_works has gone on without a publication
C20_Witness ==
    /\ pc = "process_works"
    /\ response.present
    /\ response.status = 429
    /\ requests = 1
    /\ works = MaxWorks - 1
    /\ publications = 0

\* C21: in get_expert_data an answer whose status is neither 200 nor 429 ends the call: no
\* further request is issued for the same lookup.
C21_FatalNotRetried ==
    [][(pc = "get_expert_data" /\ response.present /\ response.status \notin {200, 429})
        => requests' = requests]_vars

\* how often a request log asks for listing page n of a section
TimesRequested(log, section, n) ==
    Len(SelectSeq(ListingLog(log, section), LAMBDA e : e.page = n))

\* C22: a listing page whose request fails is requested again before the adapter stops
\* paginating: the request log of the call holds more than one and at most 3 requests
\* for that page.
C22_FailedPageRetried ==
    /\ fetch.op = "fetch_publications"
       => \A i \in DOMAIN ListingLog(fetch.requests, "browse") :
             LET n == ListingLog(fetch.requests, "browse")[i].page IN
             Page(upstream.browse, n).status = "error"
             => TimesRequested(fetch.requests, "browse", n) \in 2..3
    /\ fetch.op = "fetch_content"
       => \A p \in DOMAIN fetch.parts :
             LET part == fetch.parts[p]
                 log == ListingLog(part.requests, part.content_type)
             IN \A i \in DOMAIN log :
                   Page(upstream.sections[part.content_type], log[i].page).status = "error"
                   => TimesRequested(part.requests, part.content_type, log[i].page) \in 2..3

\* the adapters run one after another in one coroutine: the records of the adapters that
\* have finished, with their source tags
Admitted == all_content \o (IF pc \in {"orcid_loop", "orcid_register"} THEN orcid_results ELSE <<>>)

\* two (doi, title) pairs with an identity key in common
SharesKey(r, s) == IdentityKeys(r.doi, r.title) \cap IdentityKeys(s.doi, s.title) # {}

BadRow(df, i) ==
    \/ ~df.first_column
    \/ ~df.last_column
    \/ df.rows[i].First_name = NaN
    \/ df.rows[i].Last_name = NaN
    \/ df.rows[i].lookup # "author"

\* the positions of the rows that are not bad, in order
GoodRows(df) == SelectSeq([i \in DOMAIN df.rows |-> i], LAMBDA i : ~BadRow(df, i))

\* C24: for every roster and every position of a malformed or unresolvable row, process_csv
\* skips that row, processes every other row and returns its two tables without raising.
C24_BadRowsSkipped ==
    outcome.call = "process_csv"
    => /\ ~outcome.raised
       /\ [k \in DOMAIN outcome.value.experts_df |-> outcome.value.experts_df[k].row]
              = GoodRows(roster)

\* the names of the sources whose tables og_main hands to the merge, in order
Contributors ==
    <<"openalex">>
    \o (IF additional_sources.orcid # <<>> THEN <<"orcid">> ELSE <<>>)
    \o (IF additional_sources.knowhub # <<>> THEN <<"knowhub">> ELSE <<>>)
    \o (IF additional_sources.website # <<>> THEN <<"website">> ELSE <<>>)

\* the first table that holds a row with this DOI and this title
FirstTableWith(row) ==
    CHOOSE i \in DOMAIN source_dataframes :
        /\ \E k \in DOMAIN source_dataframes[i] :
              /\ source_dataframes[i][k].DOI = row.DOI
              /\ source_dataframes[i][k].Title = row.Title
        /\ \A j \in 1..(i - 1) : \A k \in DOMAIN source_dataframes[j] :
              ~(source_dataframes[j][k].DOI = row.DOI /\ source_dataframes[j][k].Title = row.Title)

\* C25: every row of the merged dataset carries the tag of the source that produced it,
\* whichever of the non-baseline sources contributed records.
C25_ProvenanceCorrect ==
    pc = "merged"
    => \A r \in DOMAIN lastCall.result :
          lastCall.result[r].source = Contributors[FirstTableWith(lastCall.result[r])]

\* the rows of a list of tables, in concatenation order
RECURSIVE Flatten(_)
Flatten(dfs) == IF dfs = <<>> THEN <<>> ELSE Head(dfs) \o Flatten(Tail(dfs))

\* two rows agree in lowercase DOI and in lowercase title
SameCompoundKey(r, s) ==
    StrLower(r.DOI) = StrLower(s.DOI) /\ StrLower(r.Title) = StrLower(s.Title)

\* the positions of the rows that no earlier row agrees with in both keys, in order
FirstOfGroup(rows) ==
    SelectSeq([k \in DOMAIN rows |-> k],
              LAMBDA k : \A j \in 1..(k - 1) : ~SameCompoundKey(rows[j], rows[k]))

\* C29: merge_all_sources drops a row exactly when an earlier row of the concatenation has
\* the same lowercase DOI and the same lowercase title, and keeps every other row in order:
\* of each group of duplicates the first row, the baseline table's, is the one kept.
C29_CompoundKeyKeepFirst ==
    lastCall.op = "merge_all_sources"
    => LET rows == Flatten(source_dataframes)
           kept == FirstOfGroup(rows)
       IN [k \in DOMAIN lastCall.result |->
               <<lastCall.result[k].DOI, lastCall.result[k].Title>>]
          = [k \in DOMAIN kept |-> <<rows[kept[k]].DOI, rows[kept[k]].Title>>]

\* C29 witness: a merge has dropped a later table's row that agrees with the first table's
\* row in both keys, written in another letter case, and has kept a row that agrees with
\* it in the DOI alone
C29_Witness ==
    /\ lastCall.op = "merge_all_sources"
    /\ Len(source_dataframes) = 2
    /\ LET first == source_dataframes[1][1] IN
       /\ lastCall.result[1].DOI = first.DOI
       /\ lastCall.result[1].source = "openalex"
       /\ \E k \in DOMAIN source_dataframes[2] :
             /\ SameCompoundKey(source_dataframes[2][k], first)
             /\ source_dataframes[2][k].DOI # first.DOI
             /\ \A r \in DOMAIN lastCall.result :
                   lastCall.result[r].DOI # source_dataframes[2][k].DOI
       /\ \E r \in DOMAIN lastCall.result :
             /\ r > 1
             /\ StrLower(lastCall.result[r].DOI) = StrLower(first.DOI)
             /\ StrLower(lastCall.result[r].Title) # StrLower(first.Title)

\* C27: a run that has accepted at least one non-baseline record hands the collection to
\* export_to_csv, which writes every record of it, and goes on to produce the merged
\* dataset: the run does not end in main's error handler.
C27_AcceptedAreExported ==
    (RunOver /\ pc # "returned" /\ all_content # <<>>) => (pc = "done" /\ "main" \notin errors)

\* C28: fetch_researcher_publications returns each work of the researcher at most once,
\* also a work without a DOI.
C28_EachWorkOnce ==
    fetch.op = "fetch_researcher_publications"
    => \A i, j \in DOMAIN fetch.result :
          fetch.result[i].put_code = fetch.result[j].put_code => i = j

\* C30: in every paginating method, when the request for page N fails after the pages
\* 1..N-1 were read, the call returns the records accumulated from the pages 1..N-1, not
\* an empty list.
C30_PartialResultsSurvive ==
    /\ fetch.op \in {"fetch_publications", "search_publications", "get_collection_items"}
       => \A n \in DOMAIN ListingLog(fetch.requests, "browse") :
             Page(upstream.browse, n) = ErrorPage
             => fetch.result
                   = KeepFirstBy(KnowhubParsed(EntriesUpTo(upstream.browse, n - 1)),
                                 fetch.seen_before, "handle")
    /\ fetch.op = "fetch_content"
       => \A p \in DOMAIN fetch.parts :
             LET part == fetch.parts[p]
                 site == upstream.sections[part.content_type]
             IN \A n \in DOMAIN ListingLog(part.requests, part.content_type) :
                   Page(site, n) = ErrorPage
                   => part.items
                         = KeepFirstBy(WebsiteParsed(EntriesUpTo(site, n - 1), part.content_type),
                                       {}, "url")

\* C26: every call of _fetch_content_type returns, for every limit, also when the section
\* keeps answering further page numbers with pages of items already seen.
C26_FetchTerminates == (pc # "idle") ~> (pc = "idle")

====
